---- MODULE Spec2Model ----
(***************************************************************************)
(* FinKG headline -> knowledge-graph extraction engine.                    *)
(*                                                                         *)
(* Three extraction modules are modelled side by side:                     *)
(*   v1  multi_event_kg_1.py   extract_multi_event_relations               *)
(*   v2  multi_event_kg_v2.py  extract_multi_event_relations +             *)
(*                             build_multi_event_knowledge_graph           *)
(*   v3  multi_event_kg_v3.py  extract_multi_event_relations_relaxed +     *)
(*                             aggregate_edges                             *)
(*                                                                         *)
(* A headline is a sequence of words taken from Vocab; its text is the     *)
(* words joined by single blanks.  Every regular expression and substring  *)
(* test of the source is evaluated on that text, restricted to the lexicon *)
(* entries that some word of Vocab can trigger (each table below lists the *)
(* entries kept).  Character offsets are computed from the word lengths.   *)
(* v3 reads its lexicon from kg_config.yaml through kg_config_loader; the  *)
(* model feeds it the tables built into v2.                                *)
(***************************************************************************)
EXTENDS Integers, Sequences, FiniteSets, TLC

(***************************************************************************)
(* Bounds                                                                  *)
(***************************************************************************)
\* longest headline list given to an extraction run
MaxTitles == 3
\* longest headline list given to a pipeline that is run twice
MaxRerunTitles == 2
\* longest headline (in words) given to the direction resolver on its own
MaxWords == 4
\* most repetitions of one headline in a list
MaxCopies == 11
\* longest headline of the clause-level runs of the resolver
MaxClauseWords == 5
\* most calls of the configuration loader in one process
MaxCalls == 4

(***************************************************************************)
(* Vocabulary and lexicon tables                                           *)
(***************************************************************************)
Vocab ==
  { "dollar", "gold", "vix", "bonds", "rally", "falls", "flat", "while", "as",
    "payrolls", "rate cut", "rate hike", "rate cut bets",
    "on strong jobs data", "on weak jobs report",
    "surges", "retreats", "climbs", "fall", "retreat", "recover",
    "extend gains", "edge up" }

\* len(word)
WordLen ==
  [ w \in Vocab |->
      CASE w = "dollar" -> 6   [] w = "gold" -> 4   [] w = "vix" -> 3
        [] w = "bonds" -> 5    [] w = "rally" -> 5  [] w = "falls" -> 5
        [] w = "flat" -> 4     [] w = "while" -> 5  [] w = "as" -> 2
        [] w = "payrolls" -> 8 [] w = "rate cut" -> 8
        [] w = "rate hike" -> 9 [] w = "rate cut bets" -> 13
        [] w = "on strong jobs data" -> 19
        [] w = "on weak jobs report" -> 19
        [] w = "surges" -> 6   [] w = "retreats" -> 8
        [] w = "climbs" -> 6   [] w = "fall" -> 4
        [] w = "retreat" -> 7  [] w = "recover" -> 7
        [] w = "extend gains" -> 12 [] w = "edge up" -> 7 ]

Directions == {"positive", "negative", "neutral"}

EventKinds == {"rate_cut", "rate_hike", "employment"}

\* words containing a keyword of the list as a substring
RATE_CUT_KEYWORDS == {"rate cut", "rate cut bets"}
RATE_HIKE_KEYWORDS == {"rate hike"}
EMPLOYMENT_KEYWORDS == {"payrolls", "on strong jobs data", "on weak jobs report"}

\* asset id -> alias words; the dict's insertion order is AssetOrder
ASSET_KEYWORDS ==
  [ gold |-> {"gold"}, dollar |-> {"dollar"}, bonds |-> {"bonds"}, vix |-> {"vix"} ]
AssetOrder == << "gold", "dollar", "bonds", "vix" >>
AssetIds == { AssetOrder[i] : i \in 1..Len(AssetOrder) }

\* v1's table has no volatility asset
ASSET_KEYWORDS_v1 ==
  [ gold |-> {"gold"}, dollar |-> {"dollar"}, bonds |-> {"bonds"} ]
AssetIds_v1 == {"gold", "dollar", "bonds"}

\* bucket -> words in which \b<indicator>\b matches for an indicator of the bucket
MOVEMENT_INDICATORS ==
  [ strong_positive |-> {"rally"}, positive |-> {"extend gains", "edge up"},
    weak_positive |-> {"recover", "edge up"},
    strong_negative |-> {}, negative |-> {"falls", "fall"},
    weak_negative |-> {"retreat"},
    neutral |-> {"flat"} ]

\* v1 tests `indicator in text`: words with an indicator of the bucket as substring
MOVEMENT_INDICATORS_v1 ==
  [ strong_positive |-> {"rally", "surges"},
    positive |-> {"climbs", "extend gains", "edge up"},
    weak_positive |-> {"recover", "edge up"},
    strong_negative |-> {}, negative |-> {"falls", "fall"},
    weak_negative |-> {"retreats", "retreat"},
    neutral |-> {"flat"} ]

MechanismIds == {"mech:rate_cut_bets", "mech:after_jobs_report"}

(***************************************************************************)
(* Text helpers                                                            *)
(***************************************************************************)
Range(s) == { s[i] : i \in 1..Len(s) }

Has(t, S) == \E i \in 1..Len(t) : t[i] \in S

\* some word of A occurs somewhere before some word of B
Before(t, A, B) == \E i, j \in 1..Len(t) : i < j /\ t[i] \in A /\ t[j] \in B

RECURSIVE TextLen(_)
\* len(' '.join(words))
TextLen(t) ==
  IF Len(t) = 0 THEN 0
  ELSE IF Len(t) = 1 THEN WordLen[t[1]]
  ELSE WordLen[t[1]] + 1 + TextLen(Tail(t))

\* character offset of the i-th word
StartOf(t, i) == IF i = 1 THEN 0 ELSE TextLen(SubSeq(t, 1, i - 1)) + 1
EndOf(t, i) == StartOf(t, i) + WordLen[t[i]]

\* the permutations of a finite set, as sequences
Perms(S) ==
  { p \in [1..Cardinality(S) -> S] : \A i, j \in 1..Cardinality(S) : p[i] = p[j] => i = j }

RECURSIVE IterationOrders(_)
\* the iteration orders of a process: each of the sets is listed in one
\* order, and the order of one set says nothing about the order of another
IterationOrders(sets) ==
  IF sets = {} THEN { [ S \in {} |-> << >> ] }
  ELSE LET S == CHOOSE S \in sets : TRUE
       IN  { (S :> p) @@ f : p \in Perms(S), f \in IterationOrders(sets \ {S}) }

\* the members of S listed in the order they have in the ranking `ord`
ListBy(ord, S) == SelectSeq(ord, LAMBDA x : x \in S)

EmptyDict == [ x \in {} |-> "neutral" ]

(***************************************************************************)
(* Detector                                                                *)
(***************************************************************************)
\* detect_event_type: one flag per event kind, any keyword occurrence suffices
detect_event_type(t) ==
  [ rate_cut   |-> Has(t, RATE_CUT_KEYWORDS),
    rate_hike  |-> Has(t, RATE_HIKE_KEYWORDS),
    employment |-> Has(t, EMPLOYMENT_KEYWORDS) ]

\* detect_assets of v2 and v3: \b<alias>'?s?\b, first matching alias per asset
detect_assets(t) == { a \in AssetIds : Has(t, ASSET_KEYWORDS[a]) }

\* detect_assets of v1: \b<alias>\b over v1's own table
detect_assets_v1(t) == { a \in AssetIds_v1 : Has(t, ASSET_KEYWORDS_v1[a]) }

\* detect_mechanisms of v1 and v2; the patterns that a headline over Vocab can match:
\*   after_jobs    r'on.*?(jobs report|employment data|nonfarm payrolls)'
\*   rate_cut_bets r'rate cut (hopes?|bets?|...)',
\*                 r'(hopes?|bets?|...)\s+(for|on).*?rate cut',
\*                 r'(trimmed?|pared?|cut|slash).*?rate (hike|increase)'
detect_mechanisms(t) ==
  { m \in MechanismIds :
      \/ /\ m = "mech:after_jobs_report"
         /\ Has(t, {"on weak jobs report"})
      \/ /\ m = "mech:rate_cut_bets"
         /\ \/ Has(t, {"rate cut bets"})
            \/ \E i, j \in 1..Len(t) :
                 /\ i + 1 < j
                 /\ t[i] = "rate cut bets"
                 /\ t[i + 1] \in {"on strong jobs data", "on weak jobs report"}
                 /\ t[j] \in RATE_CUT_KEYWORDS
            \/ Before(t, {"rate cut", "rate cut bets"}, {"rate hike"}) }

\* detect_employment_strength of v2: r'strong.*job' / r'weak.*job', both -> mixed
detect_employment_strength(t) ==
  LET has_strong == Has(t, {"on strong jobs data"})
      has_weak   == Has(t, {"on weak jobs report"})
  IN  IF has_strong /\ has_weak THEN "mixed"
      ELSE IF has_strong THEN "strong"
      ELSE IF has_weak THEN "weak"
      ELSE "none"

\* detect_employment_strength of v1: the strong list is tried first
detect_employment_strength_v1(t) ==
  IF Has(t, {"on strong jobs data"}) THEN "strong"
  ELSE IF Has(t, {"on weak jobs report"}) THEN "weak"
  ELSE "none"

(***************************************************************************)
(* Direction resolver (v2 and v3)                                          *)
(***************************************************************************)
\* the bucket lists scanned by get_all_movement_positions
BucketsV2 ==
  << "strong_positive", "positive", "weak_positive",
     "strong_negative", "negative", "weak_negative", "neutral" >>
BucketsV3 ==
  << "strong_positive", "positive", "strong_negative", "negative", "neutral" >>

\* 'positive' in direction / 'negative' in direction / else neutral
SimpleDir(bucket) ==
  IF bucket \in {"strong_positive", "positive", "weak_positive"} THEN "positive"
  ELSE IF bucket \in {"strong_negative", "negative", "weak_negative"} THEN "negative"
  ELSE "neutral"

\* the regex hits inside one word, as offsets from its start: the phrases
\* 'extend gains' and 'extend', 'edge up' (in two buckets) and 'up'; any
\* other indicator word is one hit per bucket that lists it
PhraseHits(w) ==
  CASE w = "extend gains" ->
         { [ from |-> 0, to |-> 12, bucket |-> "positive" ],
           [ from |-> 0, to |-> 6, bucket |-> "positive" ] }
    [] w = "edge up" ->
         { [ from |-> 0, to |-> 7, bucket |-> "positive" ],
           [ from |-> 5, to |-> 7, bucket |-> "positive" ],
           [ from |-> 0, to |-> 7, bucket |-> "weak_positive" ] }
    [] OTHER ->
         { [ from |-> 0, to |-> WordLen[w], bucket |-> b ] :
           b \in { c \in DOMAIN MOVEMENT_INDICATORS : w \in MOVEMENT_INDICATORS[c] } }

\* every regex hit appended to `movements`; rank is the position of the bucket
\* in the scan, which decides between equal spans (the sort is stable)
MovementCandidates(t, buckets) ==
  UNION { { [ start |-> StartOf(t, i) + h.from, end |-> StartOf(t, i) + h.to,
              dir |-> SimpleDir(h.bucket),
              rank |-> CHOOSE r \in 1..Len(buckets) : buckets[r] = h.bucket ] :
            h \in { g \in PhraseHits(t[i]) : g.bucket \in Range(buckets) } } :
          i \in 1..Len(t) }

\* sort key (start, end - start): the shorter span first at equal start
MoveLess_shortestfirst(a, b) ==
  \/ a.start < b.start
  \/ a.start = b.start /\ (a.end - a.start) < (b.end - b.start)
  \/ a.start = b.start /\ a.end = b.end /\ a.rank < b.rank

\* sort key (start, -(end - start)), insertion order among equals
MoveLess(a, b) ==
  \/ a.start < b.start
  \/ a.start = b.start /\ (a.end - a.start) > (b.end - b.start)
  \/ a.start = b.start /\ a.end = b.end /\ a.rank < b.rank

RECURSIVE SortMoves(_)
SortMoves(S) ==
  IF S = {} THEN << >>
  ELSE LET m == CHOOSE x \in S : \A y \in S \ {x} : MoveLess(x, y)
       IN  << m >> \o SortMoves(S \ {m})

RECURSIVE DropOverlaps(_, _)
\* keep a span when it starts at or after the end of the last kept one
DropOverlaps(moves, last_end) ==
  IF moves = << >> THEN << >>
  ELSE IF Head(moves).start >= last_end
       THEN << Head(moves) >> \o DropOverlaps(Tail(moves), Head(moves).end)
       ELSE DropOverlaps(Tail(moves), last_end)

\* get_all_movement_positions
get_all_movement_positions(t, buckets) ==
  DropOverlaps(SortMoves(MovementCandidates(t, buckets)), -1)

\* get_asset_positions: asset id -> spans of its mentions, left to right
get_asset_positions(t) ==
  [ a \in detect_assets(t) |->
      LET idxs == SelectSeq([ i \in 1..Len(t) |-> i ],
                            LAMBDA i : t[i] \in ASSET_KEYWORDS[a])
      IN  [ k \in 1..Len(idxs) |->
              [ start |-> StartOf(t, idxs[k]), end |-> EndOf(t, idxs[k]) ] ] ]

\* infer_direction_from_clause: negative buckets, then positive buckets, then
\* neutral; v3 scans only the buckets of BucketsV3
infer_direction_from_clause(clause, buckets) ==
  LET hit(b) == b \in Range(buckets) /\ Has(clause, MOVEMENT_INDICATORS[b])
  IN  IF hit("strong_negative") \/ hit("negative") \/ hit("weak_negative")
        THEN "negative"
      ELSE IF hit("strong_positive") \/ hit("positive") \/ hit("weak_positive")
        THEN "positive"
      ELSE "neutral"

\* 20 * distance between the centres without the factor for a movement centred
\* after the asset
ProximityDistance_unbiased(pos, mv) ==
  LET ac == pos.start + pos.end
      mc == mv.start + mv.end
  IN  IF ac >= mc THEN 10 * (ac - mc) ELSE 10 * (mc - ac)

\* 20 * distance between the centres, with the 0.9 factor for a movement whose
\* centre lies after the asset's (centres are halves, the factor is tenths)
ProximityDistance(pos, mv) ==
  LET ac == pos.start + pos.end
      mc == mv.start + mv.end
      d  == IF ac >= mc THEN ac - mc ELSE mc - ac
  IN  IF mc > ac THEN 9 * d ELSE 10 * d

RECURSIVE ClosestScan(_, _, _, _, _)
\* the double loop over (asset position, movement position): a strictly
\* smaller distance replaces the current closest; best_d = -1 stands for inf
ClosestScan(positions, moves, n, best_d, best_dir) ==
  IF n > Len(positions) * Len(moves) THEN best_dir
  ELSE LET pi == ((n - 1) \div Len(moves)) + 1
           mi == ((n - 1) % Len(moves)) + 1
           d  == ProximityDistance(positions[pi], moves[mi])
       IN  IF best_d = -1 \/ d < best_d
           THEN ClosestScan(positions, moves, n + 1, d, moves[mi].dir)
           ELSE ClosestScan(positions, moves, n + 1, best_d, best_dir)

\* extract_asset_movement_by_proximity
extract_asset_movement_by_proximity(t, buckets) ==
  LET asset_positions    == get_asset_positions(t)
      movement_positions == get_all_movement_positions(t, buckets)
  IN  IF movement_positions = << >> THEN EmptyDict
      ELSE [ a \in DOMAIN asset_positions |->
               ClosestScan(asset_positions[a], movement_positions, 1, -1, "neutral") ]

\* the words matched by the split patterns r'\s+while\s+' and r'\s+as\s+'
SplitWords == {"while", "as"}

RECURSIVE IsSplit(_, _)
\* the separator needs a blank on both sides, and the blank before it must not
\* have been consumed by a separator matched just before
IsSplit(t, i) ==
  /\ 1 < i /\ i < Len(t)
  /\ t[i] \in SplitWords
  /\ ~IsSplit(t, i - 1)

RECURSIVE SplitFrom(_, _, _)
\* re.split with capture groups: the pieces and the matched separators
SplitFrom(t, i, cur) ==
  IF i > Len(t) THEN << cur >>
  ELSE IF IsSplit(t, i)
       THEN << cur, << t[i] >> >> \o SplitFrom(t, i + 1, << >>)
       ELSE SplitFrom(t, i + 1, Append(cur, t[i]))

\* the clause list: stripped pieces longer than 3 characters, else the text
Clauses(t) ==
  LET kept == SelectSeq(SplitFrom(t, 1, << >>), LAMBDA c : TextLen(c) > 3)
  IN  IF kept = << >> THEN << t >> ELSE kept

RECURSIVE ClauseStep(_, _, _, _, _)
\* the loop over clauses in which a clause's verdict replaces only a missing
\* or a neutral entry
ClauseStep_keepfirst(clauses, k, acc, buckets, scope) ==
  IF k > Len(clauses) THEN acc
  ELSE LET clause_assets    == { a \in scope : Has(clauses[k], ASSET_KEYWORDS[a]) }
           clause_direction == infer_direction_from_clause(clauses[k], buckets)
           upd == { a \in clause_assets :
                      \/ a \notin DOMAIN acc.mov
                      \/ clause_direction # "neutral" /\ acc.mov[a] = "neutral" }
       IN  ClauseStep(clauses, k + 1,
                      [ mov  |-> [ a \in (DOMAIN acc.mov) \cup upd |->
                                     IF a \in upd THEN clause_direction ELSE acc.mov[a] ],
                        done |-> acc.done \cup upd ],
                      buckets, scope)

\* the loop over clauses; acc = [mov |-> asset_movements, done |-> assets_with_directions]
ClauseStep(clauses, k, acc, buckets, scope) ==
  IF k > Len(clauses) THEN acc
  ELSE LET clause_assets    == { a \in scope : Has(clauses[k], ASSET_KEYWORDS[a]) }
           clause_direction == infer_direction_from_clause(clauses[k], buckets)
           upd == { a \in clause_assets :
                      a \notin DOMAIN acc.mov \/ clause_direction # "neutral" }
       IN  ClauseStep(clauses, k + 1,
                      [ mov  |-> [ a \in (DOMAIN acc.mov) \cup upd |->
                                     IF a \in upd THEN clause_direction ELSE acc.mov[a] ],
                        done |-> acc.done \cup upd ],
                      buckets, scope)

\* extract_asset_movement_pairs without its closing loop over all_assets:
\* an asset that neither the clause step nor the proximity step reached is left out
extract_asset_movement_pairs_noclosure(t, buckets, scope) ==
  LET all_assets == detect_assets(t)
      clauses    == Clauses(t)
      after      == ClauseStep(clauses, 1, [ mov |-> EmptyDict, done |-> {} ],
                               buckets, scope)
      remaining_assets == all_assets \ after.done
      proximity_movements ==
        IF remaining_assets # {} \/ Len(clauses) = 1
        THEN extract_asset_movement_by_proximity(t, buckets)
        ELSE EmptyDict
      refined == { a \in DOMAIN proximity_movements :
                     a \notin DOMAIN after.mov \/ after.mov[a] = "neutral" }
  IN  [ a \in (DOMAIN after.mov) \cup refined |->
          IF a \in refined THEN proximity_movements[a] ELSE after.mov[a] ]

\* extract_asset_movement_pairs.  scope is the set the clause loop searches:
\* every asset of ASSET_KEYWORDS in v2, all_assets in v3
extract_asset_movement_pairs_with(t, buckets, scope) ==
  LET all_assets == detect_assets(t)
      clauses    == Clauses(t)
      after      == ClauseStep(clauses, 1, [ mov |-> EmptyDict, done |-> {} ],
                               buckets, scope)
      remaining_assets == all_assets \ after.done
      proximity_movements ==
        IF remaining_assets # {} \/ Len(clauses) = 1
        THEN extract_asset_movement_by_proximity(t, buckets)
        ELSE EmptyDict
      refined == { a \in DOMAIN proximity_movements :
                     a \notin DOMAIN after.mov \/ after.mov[a] = "neutral" }
      merged  == [ a \in (DOMAIN after.mov) \cup refined |->
                     IF a \in refined THEN proximity_movements[a] ELSE after.mov[a] ]
  IN  [ a \in (DOMAIN merged) \cup all_assets |->
          IF a \in DOMAIN merged THEN merged[a] ELSE "neutral" ]

extract_asset_movement_pairs_v2(t) ==
  extract_asset_movement_pairs_with(t, BucketsV2, AssetIds)

extract_asset_movement_pairs_v3(t) ==
  extract_asset_movement_pairs_with(t, BucketsV3, detect_assets(t))

(***************************************************************************)
(* Context heuristics                                                      *)
(***************************************************************************)
\* words holding, as a substring, an indicator of the positive and
\* strong_positive lists, resp. of the negative and strong_negative lists
PositiveSubstringWords == {"rally", "surges", "climbs", "extend gains", "edge up"}
NegativeSubstringWords == {"falls", "fall"}
\* words holding the literal 'vix'
VixLiteralWords == {"vix"}

\* the vix block of v2 infer_direction_with_context
VixAdjust_v2(t, direction) ==
  LET vix_explicit ==
        Has(t, VixLiteralWords)
          /\ (Has(t, PositiveSubstringWords) \/ Has(t, NegativeSubstringWords))
  IN  IF ~vix_explicit
      THEN IF direction = "positive" THEN "negative"
           ELSE IF direction = "negative" THEN "positive"
           ELSE direction
      ELSE direction

\* the employment-strength block left out
StrengthAdjust_v2_off(employment_strength, asset_type, direction) == direction

\* the employment-strength block of v2 infer_direction_with_context
StrengthAdjust_v2(employment_strength, asset_type, direction) ==
  IF employment_strength = "strong"
  THEN IF asset_type = "dollar"
       THEN IF direction = "neutral" THEN "positive" ELSE direction
       ELSE IF asset_type \in {"bonds", "yields", "gold"}
            THEN IF direction = "neutral" THEN "negative" ELSE direction
            ELSE direction
  ELSE IF employment_strength = "weak"
  THEN IF asset_type = "dollar"
       THEN IF direction = "neutral" THEN "negative" ELSE direction
       ELSE IF asset_type \in {"bonds", "gold"}
            THEN IF direction = "neutral" THEN "positive" ELSE direction
            ELSE direction
  ELSE direction

\* the dovish block without its `direction == 'neutral'` tests
DovishAdjust_v2_overwrites(mechanisms, asset_type, direction) ==
  IF "mech:rate_cut_bets" \in mechanisms \/ "mech:dovish_repricing" \in mechanisms
  THEN IF asset_type = "dollar" THEN "negative"
       ELSE IF asset_type \in {"stocks", "gold", "bonds"} THEN "positive"
            ELSE direction
  ELSE direction

\* the dovish block of v2 infer_direction_with_context
DovishAdjust_v2(mechanisms, asset_type, direction) ==
  IF "mech:rate_cut_bets" \in mechanisms \/ "mech:dovish_repricing" \in mechanisms
  THEN IF asset_type = "dollar" /\ direction = "neutral" THEN "negative"
       ELSE IF asset_type \in {"stocks", "gold", "bonds"} /\ direction = "neutral"
            THEN "positive"
            ELSE direction
  ELSE direction

\* the hawkish block of v2 infer_direction_with_context
HawkishAdjust_v2(mechanisms, asset_type, direction) ==
  IF "mech:rate_hike_bets" \in mechanisms \/ "mech:hawkish_repricing" \in mechanisms
  THEN IF asset_type = "dollar" /\ direction = "neutral" THEN "positive"
       ELSE IF asset_type \in {"stocks", "bonds"} /\ direction = "neutral"
            THEN "negative"
            ELSE direction
  ELSE direction

\* v2 infer_direction_with_context, called with a base_direction
infer_direction_with_context_v2(t, employment_strength, mechanisms, asset_type, base_direction) ==
  LET d1 == IF asset_type = "vix" THEN VixAdjust_v2(t, base_direction) ELSE base_direction
      d2 == StrengthAdjust_v2(employment_strength, asset_type, d1)
      d3 == DovishAdjust_v2(mechanisms, asset_type, d2)
  IN  HawkishAdjust_v2(mechanisms, asset_type, d3)

\* v3 infer_direction_with_context: only the vix block, and only the positive
\* and strong_positive lists make the mention explicit
infer_direction_with_context_v3(t, asset_type, base_direction) ==
  IF asset_type = "vix"
  THEN LET vix_explicit == Has(t, VixLiteralWords) /\ Has(t, PositiveSubstringWords)
       IN  IF ~vix_explicit /\ base_direction # "neutral"
           THEN IF base_direction = "positive" THEN "negative" ELSE "positive"
           ELSE base_direction
  ELSE base_direction

\* v1 infer_direction_from_movement: substring tests, negative buckets first
infer_direction_from_movement_v1(t) ==
  LET hit(b) == Has(t, MOVEMENT_INDICATORS_v1[b])
  IN  IF hit("strong_negative") \/ hit("negative") \/ hit("weak_negative")
        THEN "negative"
      ELSE IF hit("strong_positive") \/ hit("positive") \/ hit("weak_positive")
        THEN "positive"
      ELSE "neutral"

\* v1 infer_direction_with_context: one direction for the whole headline
infer_direction_with_context_v1(t, event_type, employment_strength, mechanisms) ==
  LET base_direction == infer_direction_from_movement_v1(t)
      usd  == Has(t, {"dollar"})
      safe == Has(t, {"bonds", "gold"})
  IN  IF event_type = "employment" /\ employment_strength = "weak"
         /\ ("mech:rate_cut_bets" \in mechanisms \/ "mech:dovish_repricing" \in mechanisms)
         /\ (usd \/ safe)
      THEN IF usd THEN "negative" ELSE "positive"
      ELSE IF event_type = "employment" /\ employment_strength = "strong"
         /\ ("mech:rate_hike_worries" \in mechanisms \/ "mech:hawkish_repricing" \in mechanisms)
         /\ (usd \/ safe)
      THEN IF usd THEN "positive" ELSE "negative"
      ELSE base_direction

(***************************************************************************)
(* Causal classifier                                                       *)
(***************************************************************************)
OnPhraseWords == {"on strong jobs data", "on weak jobs report"}
EventWords == RATE_CUT_KEYWORDS \cup RATE_HIKE_KEYWORDS \cup EMPLOYMENT_KEYWORDS

\* does the regex of the named rule match the headline
PatternMatches(name, t) ==
  CASE name = "explicit_on_after" ->
         \* (on|after|following|amid)\s+.*?(rate cut|fed cut|jobs report|...)
         \/ Has(t, {"on weak jobs report"})
         \/ Before(t, OnPhraseWords, RATE_CUT_KEYWORDS \cup {"on weak jobs report"})
    [] name = "event_quality_causes_movement" ->
         \* (strong|weak|...)\s+(jobs?|...)\s+(report|data|...)
         Has(t, OnPhraseWords)
    [] name = "movement_as_expectation" ->
         \* (as|while)\s+.*?(rate cut|jobs report|employment)\s+(hopes?|bets?|...)
         Before(t, {"as", "while"}, {"rate cut bets"})
    [] name = "fear_gauge_inverse" ->
         \* (fear gauge|vix|volatility)\s+(dips?|falls?|...)\s+.*?(jobs|employment|rate cut)
         \E i, j \in 1..Len(t) :
            /\ i + 1 < j
            /\ t[i] = "vix" /\ t[i + 1] \in {"falls", "fall"}
            /\ t[j] \in RATE_CUT_KEYWORDS \cup OnPhraseWords
    [] name = "asset_move_ahead_event" ->
         \* (stocks?|dollar|bond|gold|...)\s+(rise|fall|rally|...).*?(ahead of|before|as|awaiting)\s+.*?(jobs report|employment|rate cut)
         \E i, k, j \in 1..Len(t) :
            /\ i + 1 < k /\ k < j
            /\ t[i] \in {"dollar", "gold"} /\ t[i + 1] \in {"rally", "falls", "fall", "surges"}
            /\ t[k] = "as"
            /\ t[j] \in RATE_CUT_KEYWORDS \cup {"on weak jobs report"}
    [] name = "simple_asset_event_cooccurrence" ->
         \* (stocks?|dollar|bond|market|shares?).*(jobs?|employment|payroll|rate\s+cut|rate\s+hike)
         Before(t, {"dollar", "bonds"}, EventWords)
    [] name = "asset_event_simple_cooccur" ->
         \* (stock|bond|market|dollar|gold|...).*(jobs?|employment|payroll|unemployment|labor|labour)
         Before(t, {"dollar", "bonds", "gold"}, EMPLOYMENT_KEYWORDS)
    [] name = "event_asset_simple_cooccur" ->
         \* (jobs?|employment|payroll|...).*(stock|bond|market|dollar|gold|...)
         Before(t, EMPLOYMENT_KEYWORDS, {"dollar", "bonds", "gold"})
    [] OTHER -> FALSE

\* the rules of v2's CAUSAL_PATTERNS a headline over Vocab can match, in table order
CAUSAL_PATTERNS ==
  << [ name |-> "explicit_on_after", requires_movement |-> TRUE, priority |-> 10 ],
     [ name |-> "fear_gauge_inverse", requires_movement |-> TRUE, priority |-> 8 ],
     [ name |-> "event_quality_causes_movement", requires_movement |-> TRUE, priority |-> 10 ],
     [ name |-> "simple_asset_event_cooccurrence", requires_movement |-> TRUE, priority |-> 7 ],
     [ name |-> "movement_as_expectation", requires_movement |-> TRUE, priority |-> 9 ],
     [ name |-> "asset_move_ahead_event", requires_movement |-> FALSE, priority |-> 7 ],
     [ name |-> "asset_event_simple_cooccur", requires_movement |-> TRUE, priority |-> 6 ],
     [ name |-> "event_asset_simple_cooccur", requires_movement |-> TRUE, priority |-> 6 ] >>

\* the rules of v1's CAUSAL_PATTERNS a headline over Vocab can match, in table order
CAUSAL_PATTERNS_v1 ==
  << [ name |-> "explicit_on_after", requires_movement |-> TRUE, priority |-> 10 ],
     [ name |-> "movement_as_expectation", requires_movement |-> TRUE, priority |-> 9 ],
     [ name |-> "asset_move_ahead_event", requires_movement |-> FALSE, priority |-> 7 ] >>

\* has_movement of v2 match_causal_pattern: \b<indicator>\b of any bucket
has_movement(t) ==
  \E b \in DOMAIN MOVEMENT_INDICATORS : Has(t, MOVEMENT_INDICATORS[b])

RECURSIVE BestPattern(_, _, _, _)
\* the scan of v2 match_causal_pattern: a strictly higher priority replaces the
\* best match, rules needing a movement are skipped when there is none
BestPattern(t, k, best_priority, best_match) ==
  IF k > Len(CAUSAL_PATTERNS) THEN best_match
  ELSE LET rule == CAUSAL_PATTERNS[k]
       IN  IF rule.requires_movement /\ ~has_movement(t)
           THEN BestPattern(t, k + 1, best_priority, best_match)
           ELSE IF PatternMatches(rule.name, t) /\ rule.priority > best_priority
                THEN BestPattern(t, k + 1, rule.priority, rule.name)
                ELSE BestPattern(t, k + 1, best_priority, best_match)

\* v2 match_causal_pattern; "None" when no rule qualifies
match_causal_pattern_v2(t) == BestPattern(t, 1, -1, "None")

\* the result the caller of v2 puts on the edge
pattern_name_v2(t) ==
  IF match_causal_pattern_v2(t) # "None" THEN match_causal_pattern_v2(t) ELSE "co_occurrence"

\* v1 match_causal_pattern: rules by descending priority (stable), the first
\* regex that matches wins, else the fallback tuple; never None
match_causal_pattern_v1(t) ==
  LET hits == { k \in 1..Len(CAUSAL_PATTERNS_v1) :
                  PatternMatches(CAUSAL_PATTERNS_v1[k].name, t) }
      first == CHOOSE k \in hits :
                 \A j \in hits \ {k} :
                   \/ CAUSAL_PATTERNS_v1[k].priority > CAUSAL_PATTERNS_v1[j].priority
                   \/ /\ CAUSAL_PATTERNS_v1[k].priority = CAUSAL_PATTERNS_v1[j].priority
                      /\ k < j
  IN  IF hits = {} THEN "general_context" ELSE CAUSAL_PATTERNS_v1[first].name

(***************************************************************************)
(* Relation builder: what one headline adds                                *)
(***************************************************************************)
\* a list item: a string (kind "str", possibly empty) or something else
Str(words) == [ kind |-> "str", words |-> words ]

\* `not title or not isinstance(title, str)` is false
IsValidTitle(title) == title.kind = "str" /\ title.words # << >>

\* f"event:{event}" and f"asset:{asset}"
EventNode(e) ==
  CASE e = "employment" -> "event:employment"
    [] e = "rate_cut" -> "event:rate_cut"
    [] e = "rate_hike" -> "event:rate_hike"
    [] OTHER -> "event:None"
AssetNode(a) ==
  CASE a = "gold" -> "asset:gold"
    [] a = "dollar" -> "asset:dollar"
    [] a = "bonds" -> "asset:bonds"
    [] a = "vix" -> "asset:vix"

RECURSIVE PairSeq(_)
\* for i, x in enumerate(s): for y in s[i+1:]
PairSeq(s) ==
  IF Len(s) < 2 THEN << >>
  ELSE [ k \in 1..(Len(s) - 1) |-> << s[1], s[k + 1] >> ] \o PairSeq(Tail(s))

\* the primary event with the priority reversed: the last flag set wins
primary_event_v2_lastflag(event_types) ==
  IF event_types.rate_hike THEN "rate_hike"
  ELSE IF event_types.rate_cut THEN "rate_cut"
  ELSE IF event_types.employment THEN "employment"
  ELSE "None"

\* v2: employment overrides rate_cut overrides rate_hike
primary_event_v2(event_types) ==
  IF event_types.employment THEN "employment"
  ELSE IF event_types.rate_cut THEN "rate_cut"
  ELSE IF event_types.rate_hike THEN "rate_hike"
  ELSE "None"

\* v1: three successive ifs, the last flag set wins
primary_event_v1(event_types) ==
  IF event_types.rate_hike THEN "rate_hike"
  ELSE IF event_types.rate_cut THEN "rate_cut"
  ELSE IF event_types.employment THEN "employment"
  ELSE "None"

\* v2, step 6: the direction and the pattern label of one asset of the headline
asset_direction_v2(t, asset) ==
  infer_direction_with_context_v2(
    t,
    IF primary_event_v2(detect_event_type(t)) = "employment"
      THEN detect_employment_strength(t) ELSE "none",
    detect_mechanisms(t),
    asset,
    extract_asset_movement_pairs_v2(t)[asset])

\* event_edges of v2 appending the direct event -> asset tuple on both paths
event_edges_v2_alsodirect(t, assets, mechs) ==
  LET primary_event == primary_event_v2(detect_event_type(t))
  IN  [ k \in 1..(Len(assets) * Len(mechs)) |->
          LET asset == assets[((k - 1) \div Len(mechs)) + 1]
              mech  == mechs[((k - 1) % Len(mechs)) + 1]
          IN  [ event |-> primary_event, target |-> mech,
                target_type |-> "mechanism",
                direction |-> asset_direction_v2(t, asset),
                title |-> t, pattern |-> pattern_name_v2(t) ] ]
      \o [ k \in 1..Len(assets) |->
               [ event |-> primary_event, target |-> assets[k],
                 target_type |-> "asset",
                 direction |-> asset_direction_v2(t, assets[k]),
                 title |-> t, pattern |-> pattern_name_v2(t) ] ]

\* v2, step 6: the tuples appended to event_edges for one headline.
\* assets and mechs are the detected sets in the order the set iteration yields
event_edges_v2(t, assets, mechs) ==
  LET primary_event == primary_event_v2(detect_event_type(t))
  IN  IF mechs # << >>
      THEN [ k \in 1..(Len(assets) * Len(mechs)) |->
               LET asset == assets[((k - 1) \div Len(mechs)) + 1]
                   mech  == mechs[((k - 1) % Len(mechs)) + 1]
               IN  [ event |-> primary_event, target |-> mech,
                     target_type |-> "mechanism",
                     direction |-> asset_direction_v2(t, asset),
                     title |-> t, pattern |-> pattern_name_v2(t) ] ]
      ELSE [ k \in 1..Len(assets) |->
               [ event |-> primary_event, target |-> assets[k],
                 target_type |-> "asset",
                 direction |-> asset_direction_v2(t, assets[k]),
                 title |-> t, pattern |-> pattern_name_v2(t) ] ]

\* mechanism_edges of v2 looping over the mechanism table instead of the
\* mechanisms detected in the headline
mechanism_edges_v2_lexicon(t, assets, mechs) ==
  LET all == IF mechs = << >> THEN << >>
             ELSE << "mech:after_jobs_report", "mech:rate_cut_bets" >>
  IN  [ k \in 1..(Len(assets) * Len(all)) |->
          LET asset == assets[((k - 1) \div Len(all)) + 1]
              mech  == all[((k - 1) % Len(all)) + 1]
          IN  [ mechanism |-> mech, asset |-> asset,
                direction |-> asset_direction_v2(t, asset),
                title |-> t, pattern |-> pattern_name_v2(t) ] ]

\* v2, step 6: the tuples appended to mechanism_edges for one headline
mechanism_edges_v2(t, assets, mechs) ==
  [ k \in 1..(Len(assets) * Len(mechs)) |->
      LET asset == assets[((k - 1) \div Len(mechs)) + 1]
          mech  == mechs[((k - 1) % Len(mechs)) + 1]
      IN  [ mechanism |-> mech, asset |-> asset,
            direction |-> asset_direction_v2(t, asset),
            title |-> t, pattern |-> pattern_name_v2(t) ] ]

\* v1: the tuples appended to event_edges for one headline; one direction and
\* one pattern label for the whole headline
event_edges_v1(t, assets, mechs) ==
  LET event_types == detect_event_type(t)
      primary_event == primary_event_v1(event_types)
      direction ==
        infer_direction_with_context_v1(
          t,
          IF event_types.employment THEN "employment" ELSE "monetary_policy",
          IF event_types.employment THEN detect_employment_strength_v1(t) ELSE "none",
          detect_mechanisms(t))
      result == match_causal_pattern_v1(t)
  IN  IF mechs # << >>
      THEN [ k \in 1..(Len(assets) * Len(mechs)) |->
               [ event |-> primary_event,
                 target |-> mechs[((k - 1) % Len(mechs)) + 1],
                 target_type |-> "mechanism", direction |-> direction,
                 title |-> t, pattern |-> result ] ]
      ELSE \* `if result:` -- match_causal_pattern always returns a tuple
           IF result # "None"
           THEN [ k \in 1..Len(assets) |->
                    [ event |-> primary_event, target |-> assets[k],
                      target_type |-> "asset",
                      direction |-> IF direction # "neutral" THEN direction
                                    ELSE infer_direction_from_movement_v1(t),
                      title |-> t, pattern |-> result ] ]
           ELSE << >>

\* v1: the tuples appended to mechanism_edges for one headline
mechanism_edges_v1(t, assets, mechs) ==
  LET event_types == detect_event_type(t)
      direction ==
        infer_direction_with_context_v1(
          t,
          IF event_types.employment THEN "employment" ELSE "monetary_policy",
          IF event_types.employment THEN detect_employment_strength_v1(t) ELSE "none",
          detect_mechanisms(t))
  IN  [ k \in 1..(Len(assets) * Len(mechs)) |->
          [ mechanism |-> mechs[((k - 1) % Len(mechs)) + 1],
            asset |-> assets[((k - 1) \div Len(mechs)) + 1],
            direction |-> direction,
            title |-> t, pattern |-> match_causal_pattern_v1(t) ] ]

\* v3, step 1: the detected kinds in the order they are appended
detected_events_v3(t) ==
  SelectSeq(<< "employment", "rate_cut", "rate_hike" >>,
            LAMBDA e : detect_event_type(t)[e])

\* f"{direction.upper()}_IMPACT"
ImpactRelation(direction) ==
  CASE direction = "positive" -> "POSITIVE_IMPACT"
    [] direction = "negative" -> "NEGATIVE_IMPACT"
    [] direction = "neutral" -> "NEUTRAL_IMPACT"

\* v3: the event-to-event raw edges of one headline
event_event_edges_v3(t) ==
  LET pairs == PairSeq(detected_events_v3(t))
  IN  [ k \in 1..Len(pairs) |->
          [ source |-> EventNode(pairs[k][1]), source_type |-> "event",
            target |-> EventNode(pairs[k][2]), target_type |-> "event",
            relation |-> "CO_OCCURRENCE", evidence |-> t ] ]

\* the event-to-asset edges of v3 with the strict variants' pattern gate left in
event_asset_edges_v3_gated(t, assets) ==
  LET events == detected_events_v3(t)
      asset_movements == extract_asset_movement_pairs_v3(t)
  IN  IF match_causal_pattern_v2(t) = "None" THEN << >>
      ELSE [ k \in 1..(Len(events) * Len(assets)) |->
               LET event == events[((k - 1) \div Len(assets)) + 1]
                   asset == assets[((k - 1) % Len(assets)) + 1]
                   direction ==
                     infer_direction_with_context_v3(t, asset, asset_movements[asset])
               IN  [ source |-> EventNode(event), source_type |-> "event",
                     target |-> AssetNode(asset), target_type |-> "asset",
                     relation |-> ImpactRelation(direction), evidence |-> t ] ]

\* v3: the event-to-asset raw edges of one headline; no causal pattern is consulted
event_asset_edges_v3(t, assets) ==
  LET events == detected_events_v3(t)
      asset_movements == extract_asset_movement_pairs_v3(t)
  IN  [ k \in 1..(Len(events) * Len(assets)) |->
          LET event == events[((k - 1) \div Len(assets)) + 1]
              asset == assets[((k - 1) % Len(assets)) + 1]
              direction ==
                infer_direction_with_context_v3(t, asset, asset_movements[asset])
          IN  [ source |-> EventNode(event), source_type |-> "event",
                target |-> AssetNode(asset), target_type |-> "asset",
                relation |-> ImpactRelation(direction), evidence |-> t ] ]

\* v3: the relation of an asset pair from the two resolved directions
CorrelationRelation(dir1, dir2) ==
  IF dir1 = dir2 THEN "POSITIVE_CORRELATION"
  ELSE IF dir1 # "neutral" /\ dir2 # "neutral" /\ dir1 # dir2 THEN "NEGATIVE_CORRELATION"
  ELSE "CO_OCCURRENCE"

\* v3: the asset-to-asset raw edges of one headline, over list(assets)
asset_asset_edges_v3(t, assets) ==
  LET pairs == PairSeq(assets)
      asset_movements == extract_asset_movement_pairs_v3(t)
  IN  [ k \in 1..Len(pairs) |->
          [ source |-> AssetNode(pairs[k][1]), source_type |-> "asset",
            target |-> AssetNode(pairs[k][2]), target_type |-> "asset",
            relation |-> CorrelationRelation(asset_movements[pairs[k][1]],
                                             asset_movements[pairs[k][2]]),
            evidence |-> t ] ]

\* v3, step 4: everything one headline appends to raw_edges
raw_edges_v3(t, assets) ==
  event_event_edges_v3(t) \o event_asset_edges_v3(t, assets) \o asset_asset_edges_v3(t, assets)

(***************************************************************************)
(* Relation builder: the loop body of each variant                         *)
(***************************************************************************)
\* v2, one iteration of `for idx, title in enumerate(titles)`.
\* aord / mord: set -> the order in which this run iterates it
extract_step_v2(rel, title, aord, mord) ==
  IF ~IsValidTitle(title) THEN rel
  ELSE
    LET t == title.words
        primary_event == primary_event_v2(detect_event_type(t))
        mechanisms == detect_mechanisms(t)
        assets == detect_assets(t)
    IN  IF primary_event = "None" THEN rel
        ELSE IF assets = {}
        THEN [ rel EXCEPT !.events = @ \cup {primary_event},
                          !.mechanisms = @ \cup mechanisms ]
        ELSE [ rel EXCEPT
                 !.events = @ \cup {primary_event},
                 !.mechanisms = @ \cup mechanisms,
                 !.assets = @ \cup assets,
                 !.event_edges =
                    @ \o event_edges_v2(t, aord[assets], mord[mechanisms]),
                 !.mechanism_edges =
                    @ \o mechanism_edges_v2(t, aord[assets], mord[mechanisms]) ]

\* the loop body of v1 without the `if not any(event_types.values()): continue`
extract_step_v1_nogate(rel, title, aord, mord) ==
  LET t == title.words
      event_types == detect_event_type(t)
      mechanisms == detect_mechanisms(t)
      assets == detect_assets_v1(t)
  IN  IF assets = {} THEN rel
      ELSE [ rel EXCEPT
               !.events = @ \cup { e \in EventKinds : event_types[e] },
               !.mechanisms = @ \cup mechanisms,
               !.assets = @ \cup assets,
               !.event_edges =
                  @ \o event_edges_v1(t, aord[assets], mord[mechanisms]),
               !.mechanism_edges =
                  @ \o mechanism_edges_v1(t, aord[assets], mord[mechanisms]) ]

\* v1, one iteration of the loop for a string item (title.lower() succeeded)
extract_step_v1(rel, title, aord, mord) ==
  LET t == title.words
      event_types == detect_event_type(t)
      mechanisms == detect_mechanisms(t)
      assets == detect_assets_v1(t)
  IN  IF ~(event_types.employment \/ event_types.rate_cut \/ event_types.rate_hike)
      THEN rel
      ELSE IF assets = {} THEN rel
      ELSE [ rel EXCEPT
               !.events = @ \cup { e \in EventKinds : event_types[e] },
               !.mechanisms = @ \cup mechanisms,
               !.assets = @ \cup assets,
               !.event_edges =
                  @ \o event_edges_v1(t, aord[assets], mord[mechanisms]),
               !.mechanism_edges =
                  @ \o mechanism_edges_v1(t, aord[assets], mord[mechanisms]) ]

\* the loop body of v3 counting `extracted` before the skip of a headline
\* with neither an event nor an asset
extract_step_v3_countfirst(rel, title, aord) ==
  IF ~IsValidTitle(title) THEN rel
  ELSE
    LET t == title.words
        detected_events == detected_events_v3(t)
        assets == detect_assets(t)
        has_events == Len(detected_events) > 0
        has_assets == assets # {}
    IN  [ rel EXCEPT
            !.events = @ \cup Range(detected_events),
            !.assets = @ \cup assets,
            !.extraction_stats =
               [ @ EXCEPT
                   !.with_events = @ + (IF has_events THEN 1 ELSE 0),
                   !.with_assets = @ + (IF has_assets THEN 1 ELSE 0),
                   !.with_both = @ + (IF has_events /\ has_assets THEN 1 ELSE 0),
                   !.extracted = @ + 1 ],
            !.raw_edges = @ \o (IF ~has_events /\ ~has_assets THEN << >>
                                ELSE raw_edges_v3(t, aord[assets])) ]

\* the loop body of v3 skipping every headline that lacks an event or an asset
extract_step_v3_bothrequired(rel, title, aord) ==
  IF ~IsValidTitle(title) THEN rel
  ELSE
    LET t == title.words
        detected_events == detected_events_v3(t)
        assets == detect_assets(t)
        has_events == Len(detected_events) > 0
        has_assets == assets # {}
    IN  IF ~has_events \/ ~has_assets THEN rel
        ELSE [ rel EXCEPT
                 !.events = @ \cup Range(detected_events),
                 !.assets = @ \cup assets,
                 !.extraction_stats =
                    [ @ EXCEPT
                        !.with_events = @ + (IF has_events THEN 1 ELSE 0),
                        !.with_assets = @ + (IF has_assets THEN 1 ELSE 0),
                        !.with_both = @ + (IF has_events /\ has_assets THEN 1 ELSE 0),
                        !.extracted = @ + 1 ],
                 !.raw_edges = @ \o raw_edges_v3(t, aord[assets]) ]

\* v3, one iteration of the loop of extract_multi_event_relations_relaxed
extract_step_v3(rel, title, aord) ==
  IF ~IsValidTitle(title) THEN rel
  ELSE
    LET t == title.words
        detected_events == detected_events_v3(t)
        assets == detect_assets(t)
        has_events == Len(detected_events) > 0
        has_assets == assets # {}
    IN  IF ~has_events /\ ~has_assets THEN rel
        ELSE [ rel EXCEPT
                 !.events = @ \cup Range(detected_events),
                 !.assets = @ \cup assets,
                 !.extraction_stats =
                    [ @ EXCEPT
                        !.with_events = @ + (IF has_events THEN 1 ELSE 0),
                        !.with_assets = @ + (IF has_assets THEN 1 ELSE 0),
                        !.with_both = @ + (IF has_events /\ has_assets THEN 1 ELSE 0),
                        !.extracted = @ + 1 ],
                 !.raw_edges = @ \o raw_edges_v3(t, aord[assets]) ]

(***************************************************************************)
(* Aggregator                                                              *)
(***************************************************************************)
RECURSIVE Dedup(_)
\* the keys of a dict filled in this order: first appearance order
Dedup(s) ==
  IF s = << >> THEN << >>
  ELSE << s[1] >> \o Dedup(SelectSeq(Tail(s), LAMBDA x : x # s[1]))

Count(s, x) == Cardinality({ i \in 1..Len(s) : s[i] = x })

Min(a, b) == IF a < b THEN a ELSE b

\* max(patterns.items(), key=count)[0]: the first key holding the largest count
MostCommon(s) ==
  LET d == Dedup(s)
      k == CHOOSE k \in 1..Len(d) :
             /\ \A j \in 1..Len(d) : Count(s, d[j]) <= Count(s, d[k])
             /\ \A j \in 1..(k - 1) : Count(s, d[j]) < Count(s, d[k])
  IN  d[k]

\* dict(data['patterns'])
PatternDistribution(s) == [ x \in Range(s) |-> Count(s, x) ]

\* evidence[:10]
EvidenceCap == 10

PolarityRelation(polarity) ==
  IF polarity = "positive" THEN "POSITIVELY_IMPACTS"
  ELSE IF polarity = "negative" THEN "NEGATIVELY_IMPACTS"
  ELSE "INDIRECTLY_AFFECTS"

EventEdgeKey(e) == << e.event, e.target, e.target_type >>

\* the exported edge counting the evidence entries it carries
event_group_edge_carried(grp, edge_id) ==
  LET polarity == grp[Len(grp)].direction
      patterns == [ i \in 1..Len(grp) |-> grp[i].pattern ]
  IN  [ id |-> edge_id,
        source |-> EventNode(grp[1].event),
        target |-> IF grp[1].target_type = "mechanism" THEN grp[1].target
                   ELSE AssetNode(grp[1].target),
        relation |-> IF grp[1].target_type = "mechanism" THEN "TRIGGERS"
                     ELSE PolarityRelation(polarity),
        polarity |-> polarity,
        evidence_count |-> Min(Len(grp), EvidenceCap),
        primary_pattern |-> MostCommon(patterns),
        pattern_distribution |-> PatternDistribution(patterns),
        evidence |-> [ i \in 1..Min(Len(grp), EvidenceCap) |->
                         [ title |-> grp[i].title, pattern |-> grp[i].pattern ] ] ]

\* the exported edge of one event_edge_groups entry; grp holds the tuples of the
\* key in input order, polarity is whatever the last of them assigned
event_group_edge(grp, edge_id) ==
  LET polarity == grp[Len(grp)].direction
      patterns == [ i \in 1..Len(grp) |-> grp[i].pattern ]
  IN  [ id |-> edge_id,
        source |-> EventNode(grp[1].event),
        target |-> IF grp[1].target_type = "mechanism" THEN grp[1].target
                   ELSE AssetNode(grp[1].target),
        relation |-> IF grp[1].target_type = "mechanism" THEN "TRIGGERS"
                     ELSE PolarityRelation(polarity),
        polarity |-> polarity,
        evidence_count |-> Len(grp),
        primary_pattern |-> MostCommon(patterns),
        pattern_distribution |-> PatternDistribution(patterns),
        evidence |-> [ i \in 1..Min(Len(grp), EvidenceCap) |->
                         [ title |-> grp[i].title, pattern |-> grp[i].pattern ] ] ]

MechEdgeKey(e) == << e.mechanism, e.asset >>

\* the exported edge of one mech_edge_groups entry
mech_group_edge(grp, edge_id) ==
  LET polarity == grp[Len(grp)].direction
      patterns == [ i \in 1..Len(grp) |-> grp[i].pattern ]
  IN  [ id |-> edge_id,
        source |-> grp[1].mechanism,
        target |-> AssetNode(grp[1].asset),
        relation |-> PolarityRelation(polarity),
        polarity |-> polarity,
        evidence_count |-> Len(grp),
        primary_pattern |-> MostCommon(patterns),
        pattern_distribution |-> PatternDistribution(patterns),
        evidence |-> [ i \in 1..Min(Len(grp), EvidenceCap) |->
                         [ title |-> grp[i].title, pattern |-> grp[i].pattern ] ] ]

\* sorted(relations['events']), sorted(relations['mechanisms']), sorted(relations['assets'])
SortedEvents == << "employment", "rate_cut", "rate_hike" >>
SortedMechanisms == << "mech:after_jobs_report", "mech:rate_cut_bets" >>
SortedAssets == << "bonds", "dollar", "gold", "vix" >>

\* the node list: layer 1 events, layer 2 mechanisms, layer 3 assets, each sorted
kg_nodes(rel) ==
  LET ev == ListBy(SortedEvents, rel.events)
      me == ListBy(SortedMechanisms, rel.mechanisms)
      as == ListBy(SortedAssets, rel.assets)
  IN  [ i \in 1..Len(ev) |-> [ id |-> EventNode(ev[i]), layer |-> 1 ] ]
      \o [ i \in 1..Len(me) |-> [ id |-> me[i], layer |-> 2 ] ]
      \o [ i \in 1..Len(as) |-> [ id |-> AssetNode(as[i]), layer |-> 3 ] ]

\* the edge list: event groups first, then mechanism groups, ids running on
kg_edges(rel) ==
  LET ekeys == Dedup([ i \in 1..Len(rel.event_edges) |-> EventEdgeKey(rel.event_edges[i]) ])
      mkeys == Dedup([ i \in 1..Len(rel.mechanism_edges) |-> MechEdgeKey(rel.mechanism_edges[i]) ])
  IN  [ k \in 1..Len(ekeys) |->
          event_group_edge(
            SelectSeq(rel.event_edges, LAMBDA e : EventEdgeKey(e) = ekeys[k]), k) ]
      \o [ k \in 1..Len(mkeys) |->
          mech_group_edge(
            SelectSeq(rel.mechanism_edges, LAMBDA e : MechEdgeKey(e) = mkeys[k]),
            Len(ekeys) + k) ]

\* build_multi_event_knowledge_graph (the node statistics of the summary left out)
build_multi_event_knowledge_graph(rel) ==
  [ nodes |-> kg_nodes(rel),
    edges |-> kg_edges(rel),
    total_nodes |-> Len(kg_nodes(rel)),
    total_edges |-> Len(kg_edges(rel)) ]

RawEdgeKey(e) == << e.source, e.target, e.relation >>

\* an edge_map entry that keeps each evidence record once
aggregated_edge_dedup(grp) ==
  [ source |-> grp[1].source, source_type |-> grp[1].source_type,
    target |-> grp[1].target, target_type |-> grp[1].target_type,
    relation |-> grp[1].relation,
    evidence_count |-> Len(Dedup([ i \in 1..Len(grp) |-> grp[i].evidence ])),
    evidence_list |-> Dedup([ i \in 1..Len(grp) |-> grp[i].evidence ]) ]

\* one edge_map entry: the fields of the first raw edge of the key, all evidence
aggregated_edge(grp) ==
  [ source |-> grp[1].source, source_type |-> grp[1].source_type,
    target |-> grp[1].target, target_type |-> grp[1].target_type,
    relation |-> grp[1].relation,
    evidence_count |-> Len(grp),
    evidence_list |-> [ i \in 1..Len(grp) |-> grp[i].evidence ] ]

RECURSIVE SortByCountDesc(_)
\* list.sort(key=evidence_count, reverse=True): stable, larger counts first
SortByCountDesc(s) ==
  IF s = << >> THEN << >>
  ELSE LET k == CHOOSE k \in 1..Len(s) :
                  /\ \A j \in 1..Len(s) : s[j].evidence_count <= s[k].evidence_count
                  /\ \A j \in 1..(k - 1) : s[j].evidence_count < s[k].evidence_count
       IN  << s[k] >> \o SortByCountDesc(SubSeq(s, 1, k - 1) \o SubSeq(s, k + 1, Len(s)))

\* aggregate_edges of v3
aggregate_edges(raw_edges) ==
  LET keys == Dedup([ i \in 1..Len(raw_edges) |-> RawEdgeKey(raw_edges[i]) ])
  IN  SortByCountDesc(
        [ k \in 1..Len(keys) |->
            aggregated_edge(SelectSeq(raw_edges, LAMBDA e : RawEdgeKey(e) = keys[k])) ])

(***************************************************************************)
(* The pipelines as a state machine                                        *)
(***************************************************************************)
VARIABLES
  titles,      \* the headline list handed to the entry point
  ver,         \* which module runs: "v1", "v2" (strict) or "v3" (relaxed)
  assetOrder,  \* set of asset ids -> the order in which this process iterates it
  mechOrder,   \* set of mechanism ids -> the order in which this process iterates it
  idx,         \* the position the loop is about to process (1-based)
  relations,   \* the relations dict being filled
  kg,          \* the graph built from relations (v1, v2), << >> before
  pc,          \* "extract", "done", "raised", or "resolve"/"resolved"
  emitted,     \* history: every candidate appended, with the position that did it
  run,         \* 1 in the first run of the pipeline, 2 in a second one
  first,       \* what the first run was given and produced, << >> before
  text,        \* the headline handed to the direction resolver
  pairs,       \* the mapping the direction resolver returned, << >> before
  args,        \* the other arguments of a function called on text
  returned,    \* what that function returned, "none" before
  config_instance, \* the loader's module-level _config_instance
  calls        \* how many times load_kg_config was called in this process

vars == << titles, ver, assetOrder, mechOrder, idx, relations, kg, pc, emitted,
           run, first, text, pairs, args, returned,
          config_instance, calls >>

(***************************************************************************)
(* Configuration loader (kg_config_loader.py)                              *)
(***************************************************************************)
\* _config_instance is None
NoInstance == [ id |-> 0, config_path |-> "None" ]
\* script_dir / "kg_config.yaml"
DefaultConfigPath == "script_dir/kg_config.yaml"

\* KGConfig.__init__ when the file loads: the n-th object of the process,
\* holding the path it resolved
KGConfig(n, config_path) ==
  [ id |-> n,
    config_path |-> IF config_path = "None" THEN DefaultConfigPath ELSE config_path ]

\* load_kg_config clearing the cache before it constructs
load_kg_config_clearfirst(cached, n, config_path, reload, loadable) ==
  IF cached = NoInstance \/ reload
  THEN IF loadable
       THEN [ cached |-> KGConfig(n, config_path),
              returned |-> [ raised |-> FALSE, value |-> KGConfig(n, config_path) ] ]
       ELSE [ cached |-> NoInstance,
              returned |-> [ raised |-> TRUE, value |-> NoInstance ] ]
  ELSE [ cached |-> cached, returned |-> [ raised |-> FALSE, value |-> cached ] ]

\* load_kg_config as the n-th call of the process; loadable tells whether
\* KGConfig(config_path) returns (the file exists and parses) or raises.
\* The result is the new _config_instance and what the caller gets
load_kg_config(cached, n, config_path, reload, loadable) ==
  IF cached = NoInstance \/ reload
  THEN IF loadable
       THEN [ cached |-> KGConfig(n, config_path),
              returned |-> [ raised |-> FALSE, value |-> KGConfig(n, config_path) ] ]
       ELSE [ cached |-> cached,
              returned |-> [ raised |-> TRUE, value |-> NoInstance ] ]
  ELSE [ cached |-> cached, returned |-> [ raised |-> FALSE, value |-> cached ] ]

\* v3 calls load_kg_config() when it is imported; v1 and v2 never load
InitLoaderFor(v) ==
  /\ config_instance = IF v = "v3" THEN KGConfig(1, "None") ELSE NoInstance
  /\ calls = IF v = "v3" THEN 1 ELSE 0


Versions == {"v1", "v2", "v3"}

\* a list item that is not a string (None, NaN)
\* no function call pending
NoArgs == << >>

NoneTitle == [ kind |-> "none", words |-> << >> ]

\* two example headlines, lowercased: the one in the docstring of
\* extract_asset_movement_pairs, and one that the split pattern r'\s+as\s+' cuts
DocumentedExample1 ==
  << "dollar", "surges", "while", "gold", "retreats", "on strong jobs data" >>
DocumentedExample2 ==
  << "gold", "climbs", "as", "bonds", "fall", "on weak jobs report" >>

\* the headlines the lists are drawn from
Corpus ==
  { Str(<< "dollar", "rally", "payrolls" >>),
    Str(<< "dollar", "falls", "payrolls" >>),
    Str(<< "dollar", "gold", "rate cut bets" >>),
    Str(<< "gold", "rate cut bets", "on weak jobs report" >>),
    Str(<< "dollar", "payrolls" >>),
    Str(<< "dollar", "rate cut", "rate hike" >>),
    Str(<< "dollar", "gold" >>),
    Str(<< "payrolls", "rate cut" >>),
    Str(<< >>),
    NoneTitle }

SeqsUpTo(S, n) == UNION { [1..k -> S] : k \in 0..n }

\* the words the direction resolver tells apart: asset aliases, movement
\* indicators, clause separators, and one word that is none of these
ResolverVocab ==
  { "dollar", "gold", "vix", "rally", "falls", "flat", "while", "as", "payrolls" }

\* the sets detect_assets / detect_mechanisms build for the headlines of a list
DetectedAssetSets(v, ts) ==
  { IF v = "v1" THEN detect_assets_v1(ts[i].words) ELSE detect_assets(ts[i].words) :
      i \in 1..Len(ts) }
DetectedMechanismSets(ts) == { detect_mechanisms(ts[i].words) : i \in 1..Len(ts) }

\* the relations dict as each entry point creates it
InitialRelations(v, ts) ==
  IF v = "v3"
  THEN [ events |-> {}, mechanisms |-> {}, assets |-> {}, raw_edges |-> << >>,
         extraction_stats |-> [ total_headlines |-> Len(ts), with_events |-> 0,
                                with_assets |-> 0, with_both |-> 0, extracted |-> 0 ] ]
  ELSE [ events |-> {}, mechanisms |-> {}, assets |-> {},
         event_edges |-> << >>, mechanism_edges |-> << >> ]

InitWith(maxTitles) ==
  /\ titles \in SeqsUpTo(Corpus, maxTitles)
  /\ ver \in Versions
  /\ assetOrder \in IterationOrders(DetectedAssetSets(ver, titles))
  /\ mechOrder \in IterationOrders(DetectedMechanismSets(titles))
  /\ idx = 1
  /\ relations = InitialRelations(ver, titles)
  /\ kg = << >>
  /\ pc = "extract"
  /\ emitted = << >>
  /\ run = 1
  /\ first = << >>
  /\ InitLoaderFor(ver)
  /\ text = << >>
  /\ pairs = << >>
  /\ args = NoArgs
  /\ returned = "none"

Init == InitWith(MaxTitles)

\* the history entries for the tuples a loop iteration appended
EmittedBy(i, old, new) ==
  IF "raw_edges" \in DOMAIN new
  THEN [ k \in 1..(Len(new.raw_edges) - Len(old.raw_edges)) |->
           LET e == new.raw_edges[Len(old.raw_edges) + k]
           IN  [ idx |-> i, kind |-> "raw_edge",
                 key |-> << e.source, e.target, e.relation >>, edge |-> e ] ]
  ELSE [ k \in 1..(Len(new.event_edges) - Len(old.event_edges)) |->
           LET e == new.event_edges[Len(old.event_edges) + k]
           IN  [ idx |-> i, kind |-> "event_edge",
                 key |-> << EventNode(e.event),
                            IF e.target_type = "mechanism" THEN e.target
                            ELSE AssetNode(e.target) >>,
                 edge |-> e ] ]
       \o [ k \in 1..(Len(new.mechanism_edges) - Len(old.mechanism_edges)) |->
           LET e == new.mechanism_edges[Len(old.mechanism_edges) + k]
           IN  [ idx |-> i, kind |-> "mechanism_edge",
                 key |-> << e.mechanism, AssetNode(e.asset) >>, edge |-> e ] ]

\* v1: one loop iteration; title.lower() raises on an item that is not a string
ExtractV1 ==
  /\ ver = "v1" /\ pc = "extract" /\ idx <= Len(titles)
  /\ IF titles[idx].kind # "str"
     THEN /\ pc' = "raised"
          /\ UNCHANGED << relations, idx, emitted >>
     ELSE /\ relations' = extract_step_v1(relations, titles[idx], assetOrder, mechOrder)
          /\ emitted' = emitted \o EmittedBy(idx, relations, relations')
          /\ idx' = idx + 1
          /\ pc' = pc
  /\ UNCHANGED << titles, ver, assetOrder, mechOrder, kg, run, first, text, pairs, args, returned,
                  config_instance, calls >>

\* v2: one loop iteration
ExtractV2 ==
  /\ ver = "v2" /\ pc = "extract" /\ idx <= Len(titles)
  /\ relations' = extract_step_v2(relations, titles[idx], assetOrder, mechOrder)
  /\ emitted' = emitted \o EmittedBy(idx, relations, relations')
  /\ idx' = idx + 1
  /\ UNCHANGED << titles, ver, assetOrder, mechOrder, kg, pc, run, first, text, pairs, args, returned,
                  config_instance, calls >>

\* v3: one loop iteration
ExtractV3 ==
  /\ ver = "v3" /\ pc = "extract" /\ idx <= Len(titles)
  /\ relations' = extract_step_v3(relations, titles[idx], assetOrder)
  /\ emitted' = emitted \o EmittedBy(idx, relations, relations')
  /\ idx' = idx + 1
  /\ UNCHANGED << titles, ver, assetOrder, mechOrder, kg, pc, run, first, text, pairs, args, returned,
                  config_instance, calls >>

\* v1, v2: main() builds the graph from the returned relations
BuildKG ==
  /\ ver \in {"v1", "v2"} /\ pc = "extract" /\ idx > Len(titles)
  /\ kg' = build_multi_event_knowledge_graph(relations)
  /\ pc' = "done"
  /\ UNCHANGED << titles, ver, assetOrder, mechOrder, idx, relations, emitted,
                  run, first, text, pairs, args, returned,
                  config_instance, calls >>

\* v3: the last statement of extract_multi_event_relations_relaxed
AggregateEdges ==
  /\ ver = "v3" /\ pc = "extract" /\ idx > Len(titles)
  /\ relations' =
       [ events |-> relations.events, mechanisms |-> relations.mechanisms,
         assets |-> relations.assets, raw_edges |-> relations.raw_edges,
         extraction_stats |-> relations.extraction_stats,
         aggregated_edges |-> aggregate_edges(relations.raw_edges) ]
  /\ pc' = "done"
  /\ UNCHANGED << titles, ver, assetOrder, mechOrder, idx, kg, emitted,
                  run, first, text, pairs, args, returned,
                  config_instance, calls >>

Next == ExtractV1 \/ ExtractV2 \/ ExtractV3 \/ BuildKG \/ AggregateEdges

Spec == Init /\ [][Next]_vars

(***************************************************************************)
(* Two runs of a pipeline on the same headlines                            *)
(***************************************************************************)
\* the corpus and a headline whose three assets include the two of another
\* headline, so that one process iterates two overlapping sets
InitTwice ==
  /\ titles \in SeqsUpTo(Corpus \cup { Str(<< "dollar", "gold", "bonds", "payrolls" >>) },
                          MaxRerunTitles)
  /\ ver \in Versions
  /\ assetOrder \in IterationOrders(DetectedAssetSets(ver, titles))
  /\ mechOrder \in IterationOrders(DetectedMechanismSets(titles))
  /\ idx = 1
  /\ relations = InitialRelations(ver, titles)
  /\ kg = << >>
  /\ pc = "extract"
  /\ emitted = << >>
  /\ run = 1
  /\ first = << >>
  /\ InitLoaderFor(ver)
  /\ text = << >>
  /\ pairs = << >>
  /\ args = NoArgs
  /\ returned = "none"

\* the pipeline is started again, in a new process (a new iteration order of
\* the sets), on the same headlines in some order
Rerun ==
  /\ pc = "done" /\ run = 1
  /\ first' = [ titles |-> titles, assetOrder |-> assetOrder, mechOrder |-> mechOrder,
                relations |-> relations, kg |-> kg ]
  /\ \E p \in Perms(1..Len(titles)) :
       titles' = [ i \in 1..Len(titles) |-> titles[p[i]] ]
  /\ assetOrder' \in IterationOrders(DetectedAssetSets(ver, titles))
  /\ mechOrder' \in IterationOrders(DetectedMechanismSets(titles))
  /\ idx' = 1
  /\ relations' = InitialRelations(ver, titles)
  /\ kg' = << >>
  /\ pc' = "extract"
  /\ emitted' = << >>
  /\ run' = 2
  /\ UNCHANGED << ver, text, pairs, args, returned,
                  config_instance, calls >>

NextTwice == Next \/ Rerun

SpecTwice == InitTwice /\ [][NextTwice]_vars

(***************************************************************************)
(* The direction resolver called on one headline                           *)
(***************************************************************************)
InitResolver ==
  /\ text \in SeqsUpTo(ResolverVocab, MaxWords) \cup {DocumentedExample1, DocumentedExample2}
  /\ ver \in {"v2", "v3"}
  /\ pc = "resolve"
  /\ pairs = << >>
  /\ titles = << >> /\ assetOrder = << >> /\ mechOrder = << >>
  /\ idx = 1 /\ relations = InitialRelations(ver, << >>) /\ kg = << >>
  /\ emitted = << >> /\ run = 1 /\ first = << >>
  /\ InitLoaderFor(ver)
  /\ args = NoArgs /\ returned = "none"

\* extract_asset_movement_pairs of v2
ResolveV2 ==
  /\ ver = "v2" /\ pc = "resolve"
  /\ pairs' = extract_asset_movement_pairs_v2(text)
  /\ pc' = "resolved"
  /\ UNCHANGED << titles, ver, assetOrder, mechOrder, idx, relations, kg, emitted,
                  run, first, text, args, returned,
                  config_instance, calls >>

\* extract_asset_movement_pairs of v3
ResolveV3 ==
  /\ ver = "v3" /\ pc = "resolve"
  /\ pairs' = extract_asset_movement_pairs_v3(text)
  /\ pc' = "resolved"
  /\ UNCHANGED << titles, ver, assetOrder, mechOrder, idx, relations, kg, emitted,
                  run, first, text, args, returned,
                  config_instance, calls >>

NextResolver == ResolveV2 \/ ResolveV3

SpecResolver == InitResolver /\ [][NextResolver]_vars

\* the resolver called on headlines long enough to hold an asset and an
\* indicator on both sides of a separator
InitClauses ==
  /\ text \in SeqsUpTo(
         { "dollar", "vix", "rally", "falls", "flat", "while" }, MaxClauseWords)
  /\ ver \in {"v2", "v3"}
  /\ pc = "resolve"
  /\ pairs = << >>
  /\ titles = << >> /\ assetOrder = << >> /\ mechOrder = << >>
  /\ idx = 1 /\ relations = InitialRelations(ver, << >>) /\ kg = << >>
  /\ emitted = << >> /\ run = 1 /\ first = << >>
  /\ InitLoaderFor(ver)
  /\ args = NoArgs /\ returned = "none"

SpecClauses == InitClauses /\ [][NextResolver]_vars

InitProximity ==
  /\ text \in SeqsUpTo(
         { "falls", "fall", "as", "dollar", "vix", "rally" }, MaxClauseWords)
  /\ ver \in {"v2", "v3"}
  /\ pc = "proximity"
  /\ pairs = << >>
  /\ titles = << >> /\ assetOrder = << >> /\ mechOrder = << >>
  /\ idx = 1 /\ relations = InitialRelations(ver, << >>) /\ kg = << >>
  /\ emitted = << >> /\ run = 1 /\ first = << >>
  /\ InitLoaderFor(ver)
  /\ args = NoArgs /\ returned = "none"

\* extract_asset_movement_by_proximity of v2
ProximityV2 ==
  /\ ver = "v2" /\ pc = "proximity"
  /\ pairs' = extract_asset_movement_by_proximity(text, BucketsV2)
  /\ pc' = "matched"
  /\ UNCHANGED << titles, ver, assetOrder, mechOrder, idx, relations, kg, emitted,
                  run, first, text, args, returned,
                  config_instance, calls >>

\* extract_asset_movement_by_proximity of v3
ProximityV3 ==
  /\ ver = "v3" /\ pc = "proximity"
  /\ pairs' = extract_asset_movement_by_proximity(text, BucketsV3)
  /\ pc' = "matched"
  /\ UNCHANGED << titles, ver, assetOrder, mechOrder, idx, relations, kg, emitted,
                  run, first, text, args, returned,
                  config_instance, calls >>

NextProximity == ProximityV2 \/ ProximityV3

SpecProximity == InitProximity /\ [][NextProximity]_vars

(***************************************************************************)
(* A process that only calls the configuration loader                      *)
(***************************************************************************)
InitLoader ==
  /\ config_instance = NoInstance /\ calls = 0
  /\ pc = "loader"
  /\ args = NoArgs /\ returned = "none"
  /\ ver = "v3" /\ text = << >> /\ pairs = << >>
  /\ titles = << >> /\ assetOrder = << >> /\ mechOrder = << >>
  /\ idx = 1 /\ relations = InitialRelations("v3", << >>) /\ kg = << >>
  /\ emitted = << >> /\ run = 1 /\ first = << >>

\* one call load_kg_config(config_path, reload)
LoadKGConfig ==
  /\ pc = "loader" /\ calls < MaxCalls
  /\ \E config_path \in { "None", "a.yaml", "b.yaml" }, reload \in BOOLEAN, loadable \in BOOLEAN :
       LET out == load_kg_config(config_instance, calls + 1, config_path, reload, loadable)
       IN  /\ args' = [ config_path |-> config_path, reload |-> reload,
                        loadable |-> loadable ]
           /\ config_instance' = out.cached
           /\ returned' = out.returned
  /\ calls' = calls + 1
  /\ UNCHANGED << titles, ver, assetOrder, mechOrder, idx, relations, kg, pc, emitted,
                  run, first, text, pairs >>

NextLoader == LoadKGConfig

SpecLoader == InitLoader /\ [][NextLoader]_vars

(***************************************************************************)
(* The pipelines run on a list that repeats one headline                   *)
(***************************************************************************)

InitBulk ==
  /\ titles \in { [ i \in 1..n |-> h ] : n \in 0..MaxCopies, h \in
                 { Str(<< "dollar", "rally", "payrolls" >>),
                   Str(<< "dollar", "gold", "rate cut bets" >>),
                   Str(DocumentedExample1),
                   Str(<< "payrolls" >>) } }
  /\ ver \in Versions
  /\ assetOrder \in IterationOrders(DetectedAssetSets(ver, titles))
  /\ mechOrder \in IterationOrders(DetectedMechanismSets(titles))
  /\ idx = 1
  /\ relations = InitialRelations(ver, titles)
  /\ kg = << >>
  /\ pc = "extract"
  /\ emitted = << >>
  /\ run = 1
  /\ first = << >>
  /\ InitLoaderFor(ver)
  /\ text = << >>
  /\ pairs = << >>
  /\ args = NoArgs
  /\ returned = "none"

SpecBulk == InitBulk /\ [][Next]_vars

(***************************************************************************)
(* infer_direction_with_context called on one headline                     *)
(***************************************************************************)

\* the keyword arguments of infer_direction_with_context
ContextArgs ==
  [ asset_type : {"vix", "dollar", "gold"},
    base_direction : Directions,
    employment_strength : {"none", "strong", "weak"},
    mechanisms : { {}, {"mech:rate_cut_bets"}, {"mech:rate_hike_bets"},
                   {"mech:rate_cut_bets", "mech:rate_hike_bets"} } ]

InitContext ==
  /\ text \in SeqsUpTo(
         { "vix", "rally", "falls", "flat", "dollar" }, MaxWords)
  /\ ver \in {"v2", "v3"}
  /\ args \in ContextArgs
  /\ pc = "context"
  /\ returned = "none"
  /\ pairs = << >>
  /\ titles = << >> /\ assetOrder = << >> /\ mechOrder = << >>
  /\ idx = 1 /\ relations = InitialRelations(ver, << >>) /\ kg = << >>
  /\ emitted = << >> /\ run = 1 /\ first = << >>
  /\ InitLoaderFor(ver)

\* infer_direction_with_context of v2
ContextV2 ==
  /\ ver = "v2" /\ pc = "context"
  /\ returned' = infer_direction_with_context_v2(text, args.employment_strength,
                                                 args.mechanisms, args.asset_type,
                                                 args.base_direction)
  /\ pc' = "inferred"
  /\ UNCHANGED << titles, ver, assetOrder, mechOrder, idx, relations, kg, emitted,
                  run, first, text, pairs, args,
                  config_instance, calls >>

\* infer_direction_with_context of v3; employment_strength and mechanisms are
\* accepted and not read
ContextV3 ==
  /\ ver = "v3" /\ pc = "context"
  /\ returned' = infer_direction_with_context_v3(text, args.asset_type, args.base_direction)
  /\ pc' = "inferred"
  /\ UNCHANGED << titles, ver, assetOrder, mechOrder, idx, relations, kg, emitted,
                  run, first, text, pairs, args,
                  config_instance, calls >>

NextContext == ContextV2 \/ ContextV3

SpecContext == InitContext /\ [][NextContext]_vars

(***************************************************************************)
(* The parts of the direction resolver, each called on its own on one text *)
(***************************************************************************)

InitParts ==
  /\ text \in SeqsUpTo(
         { "dollar", "rally", "falls", "flat", "retreat", "recover", "extend gains", "edge up" }, MaxWords)
  /\ ver \in {"v2", "v3"}
  /\ pc = "parts"
  /\ returned = "none"
  /\ pairs = << >>
  /\ args = NoArgs
  /\ titles = << >> /\ assetOrder = << >> /\ mechOrder = << >>
  /\ idx = 1 /\ relations = InitialRelations(ver, << >>) /\ kg = << >>
  /\ emitted = << >> /\ run = 1 /\ first = << >>
  /\ InitLoaderFor(ver)

\* infer_direction_from_clause of v2
ClauseV2 ==
  /\ ver = "v2" /\ pc = "parts"
  /\ returned' = infer_direction_from_clause(text, BucketsV2)
  /\ pc' = "clause"
  /\ UNCHANGED << titles, ver, assetOrder, mechOrder, idx, relations, kg, emitted,
                  run, first, text, pairs, args,
                  config_instance, calls >>

\* infer_direction_from_clause of v3
ClauseV3 ==
  /\ ver = "v3" /\ pc = "parts"
  /\ returned' = infer_direction_from_clause(text, BucketsV3)
  /\ pc' = "clause"
  /\ UNCHANGED << titles, ver, assetOrder, mechOrder, idx, relations, kg, emitted,
                  run, first, text, pairs, args,
                  config_instance, calls >>

\* get_all_movement_positions of v2
PositionsV2 ==
  /\ ver = "v2" /\ pc = "parts"
  /\ pairs' = get_all_movement_positions(text, BucketsV2)
  /\ pc' = "positions"
  /\ UNCHANGED << titles, ver, assetOrder, mechOrder, idx, relations, kg, emitted,
                  run, first, text, args, returned,
                  config_instance, calls >>

\* get_all_movement_positions of v3
PositionsV3 ==
  /\ ver = "v3" /\ pc = "parts"
  /\ pairs' = get_all_movement_positions(text, BucketsV3)
  /\ pc' = "positions"
  /\ UNCHANGED << titles, ver, assetOrder, mechOrder, idx, relations, kg, emitted,
                  run, first, text, args, returned,
                  config_instance, calls >>

NextParts == ClauseV2 \/ ClauseV3 \/ PositionsV2 \/ PositionsV3

SpecParts == InitParts /\ [][NextParts]_vars

(***************************************************************************)
(* Properties                                                              *)
(***************************************************************************)
\* the list positions that emitted a candidate with the given key
PositionsOf(key) == { emitted[j].idx : j \in { n \in 1..Len(emitted) : emitted[n].key = key } }

HasEvent(t) == \E e \in EventKinds : detect_event_type(t)[e]

\* C1: once a run is finished, the evidence_count of every aggregated edge is
\* the number of distinct list positions that emitted a candidate with the
\* edge's key (v2: the edges of the built graph; v3: the aggregated edges).
C1_EvidenceCountIsDistinctHeadlines ==
  pc = "done" =>
    /\ ver = "v2" =>
         \A k \in 1..Len(kg.edges) :
           kg.edges[k].evidence_count =
             Cardinality(PositionsOf(<< kg.edges[k].source, kg.edges[k].target >>))
    /\ ver = "v3" =>
         \A k \in 1..Len(relations.aggregated_edges) :
           LET e == relations.aggregated_edges[k]
           IN  e.evidence_count =
                 Cardinality(PositionsOf(<< e.source, e.target, e.relation >>))

\* C2: the mapping returned by extract_asset_movement_pairs (v2 and v3) has
\* every asset detected in the headline as a key, and every value is one of
\* positive, negative, neutral.
C2_ResolverMappingIsTotal ==
  pc = "resolved" =>
    /\ detect_assets(text) \subseteq DOMAIN pairs
    /\ \A a \in DOMAIN pairs : pairs[a] \in Directions

\* C2 witness: a resolved headline in which one detected asset got a
\* non-neutral direction and another one the neutral direction
C2_Witness ==
  /\ pc = "resolved"
  /\ \E a, b \in detect_assets(text) : pairs[a] = "neutral" /\ pairs[b] = "positive"

\* C3: aggregate_edges yields exactly one aggregated edge per distinct
\* (source, target, relation) key of the raw edges, whose evidence_list is the
\* evidence of the raw edges with that key in input order.
C3_OneAggregatedEdgePerKey ==
  (pc = "done" /\ ver = "v3") =>
    LET raw == relations.raw_edges
        agg == relations.aggregated_edges
    IN  /\ \A i, j \in 1..Len(agg) :
             (agg[i].source = agg[j].source /\ agg[i].target = agg[j].target
                /\ agg[i].relation = agg[j].relation) => i = j
        /\ { << agg[i].source, agg[i].target, agg[i].relation >> : i \in 1..Len(agg) }
             = { << raw[i].source, raw[i].target, raw[i].relation >> : i \in 1..Len(raw) }
        /\ \A i \in 1..Len(agg) :
             LET same == SelectSeq(raw, LAMBDA r : r.source = agg[i].source
                                                   /\ r.target = agg[i].target
                                                   /\ r.relation = agg[i].relation)
             IN  /\ agg[i].evidence_list = [ n \in 1..Len(same) |-> same[n].evidence ]
                 /\ agg[i].evidence_count = Len(same)

\* C3 witness: two headlines yielded the same employment -> dollar key and the
\* aggregated edge of that key has evidence_count 2
C3_Witness ==
  /\ pc = "done" /\ ver = "v3"
  /\ \E i \in 1..Len(relations.aggregated_edges) :
       /\ relations.aggregated_edges[i].source = "event:employment"
       /\ relations.aggregated_edges[i].target = "asset:dollar"
       /\ relations.aggregated_edges[i].evidence_count = 2
       /\ Cardinality(PositionsOf(<< "event:employment", "asset:dollar",
                                     relations.aggregated_edges[i].relation >>)) = 2

\* C4: every edge of the graph built by v2 has as polarity a most frequent
\* direction among the candidates merged into it, and its relation name is
\* the one derived from that polarity (TRIGGERS for a mechanism target).
C4_PolarityIsMostFrequentDirection ==
  (pc = "done" /\ ver = "v2") =>
    \A k \in 1..Len(kg.edges) :
      LET e == kg.edges[k]
          hits == SelectSeq(emitted, LAMBDA x : x.key = << e.source, e.target >>)
          dirs == [ j \in 1..Len(hits) |-> hits[j].edge.direction ]
      IN  /\ \A d \in Directions : Count(dirs, d) <= Count(dirs, e.polarity)
          /\ e.relation \in {"TRIGGERS", PolarityRelation(e.polarity)}

\* the aggregated edges as a set: key and evidence_count
AggregatedEdgeSet(rel) ==
  { << rel.aggregated_edges[i].source, rel.aggregated_edges[i].target,
       rel.aggregated_edges[i].relation, rel.aggregated_edges[i].evidence_count >> :
      i \in 1..Len(rel.aggregated_edges) }

\* the edges of a built graph as a set: key, evidence_count, polarity, relation
GraphEdgeSet(g) ==
  { << g.edges[i].source, g.edges[i].target, g.edges[i].evidence_count,
       g.edges[i].polarity, g.edges[i].relation >> : i \in 1..Len(g.edges) }

\* C5: the relaxed pipeline run a second time on the same headline list yields
\* the same set of aggregated edges (keys and evidence_count) as the first run.
C5_RerunSameAggregatedEdges ==
  (run = 2 /\ pc = "done" /\ ver = "v3" /\ titles = first.titles) =>
    AggregatedEdgeSet(relations) = AggregatedEdgeSet(first.relations)

\* C6: with the sets iterating in the same order, a run on a permutation of
\* the headline list yields the same set of finalized edges (key,
\* evidence_count, polarity / relation) as the run on the original list.
C6_PermutationSameGraph ==
  (run = 2 /\ pc = "done" /\ assetOrder = first.assetOrder /\ mechOrder = first.mechOrder) =>
    /\ ver = "v2" => GraphEdgeSet(kg) = GraphEdgeSet(first.kg)
    /\ ver = "v3" => AggregatedEdgeSet(relations) = AggregatedEdgeSet(first.relations)

\* C7: every asset and mechanism that is an endpoint of a candidate emitted
\* for a headline by v2 or v3 is in what detect_assets / detect_mechanisms
\* returns for that headline.
C7_EndpointsWereDetected ==
  ver \in {"v2", "v3"} =>
    \A j \in 1..Len(emitted) :
      LET x == emitted[j]
          t == titles[x.idx].words
          assetNodes == { AssetNode(a) : a \in detect_assets(t) }
      IN  /\ x.kind = "event_edge" =>
               /\ x.edge.target_type = "asset" => x.edge.target \in detect_assets(t)
               /\ x.edge.target_type = "mechanism" => x.edge.target \in detect_mechanisms(t)
          /\ x.kind = "mechanism_edge" =>
               /\ x.edge.mechanism \in detect_mechanisms(t)
               /\ x.edge.asset \in detect_assets(t)
          /\ x.kind = "raw_edge" =>
               /\ x.edge.source_type = "asset" => x.edge.source \in assetNodes
               /\ x.edge.target_type = "asset" => x.edge.target \in assetNodes
               /\ x.edge.source_type # "mechanism" /\ x.edge.target_type # "mechanism"

\* C7 witness: v2 has emitted a mechanism -> asset candidate for a headline
\* with two detected assets
C7_Witness ==
  /\ ver = "v2"
  /\ \E j \in 1..Len(emitted) :
       /\ emitted[j].kind = "mechanism_edge"
       /\ Cardinality(detect_assets(titles[emitted[j].idx].words)) = 2

\* the event -> asset raw edges that list position i emitted for the pair (e, a)
EventAssetEdgesAt(i, e, a) ==
  { j \in 1..Len(emitted) :
      /\ emitted[j].idx = i
      /\ emitted[j].kind = "raw_edge"
      /\ emitted[j].edge.source = EventNode(e)
      /\ emitted[j].edge.target = AssetNode(a) }

\* C8: in v3, each processed valid headline has emitted exactly one
\* event -> asset raw edge for every pair of a detected event kind and a
\* detected asset, whether or not a causal pattern matches the headline.
C8_OneEventAssetEdgePerPair ==
  ver = "v3" =>
    \A i \in 1..(idx - 1) :
      IsValidTitle(titles[i]) =>
        \A e \in EventKinds, a \in AssetIds :
          (detect_event_type(titles[i].words)[e] /\ a \in detect_assets(titles[i].words))
            => Cardinality(EventAssetEdgesAt(i, e, a)) = 1

\* C8 witness: v3 has processed a headline with an event and an asset that no
\* causal pattern matches, and the event -> asset edge is there
C8_Witness ==
  /\ ver = "v3"
  /\ \E i \in 1..(idx - 1) :
       /\ IsValidTitle(titles[i])
       /\ match_causal_pattern_v2(titles[i].words) = "None"
       /\ detect_event_type(titles[i].words).employment
       /\ "dollar" \in detect_assets(titles[i].words)
       /\ Cardinality(EventAssetEdgesAt(i, "employment", "dollar")) = 1

\* C9: in v1 and v2 a headline that no causal pattern matches emits no
\* candidate edge: every emitted candidate comes from a headline some causal
\* pattern matches.
C9_PatternIsHardGate ==
  \A j \in 1..Len(emitted) :
    LET t == titles[emitted[j].idx].words
    IN  /\ ver = "v2" => match_causal_pattern_v2(t) # "None"
        /\ ver = "v1" => match_causal_pattern_v1(t) # "general_context"

\* C10: in v1 and v2 every emitted event_edges / mechanism_edges tuple comes
\* from a headline in which some event keyword is detected.
C10_NoEventNoEdges ==
  ver \in {"v1", "v2"} =>
    \A j \in 1..Len(emitted) : HasEvent(titles[emitted[j].idx].words)

\* C10 witness: a strict run has processed a headline with an asset alias and
\* without event keyword, after a headline that did emit edges
C10_Witness ==
  /\ ver \in {"v1", "v2"}
  /\ \E i \in 1..(idx - 1) :
       /\ IsValidTitle(titles[i])
       /\ ~HasEvent(titles[i].words)
       /\ detect_assets(titles[i].words) # {}
       /\ \A j \in 1..Len(emitted) : emitted[j].idx # i
  /\ emitted # << >>

\* the raw edges that list position i emitted from a srcType node to a tgtType node
RawEdgesAt(i, srcType, tgtType) ==
  { j \in 1..Len(emitted) :
      /\ emitted[j].idx = i
      /\ emitted[j].kind = "raw_edge"
      /\ emitted[j].edge.source_type = srcType
      /\ emitted[j].edge.target_type = tgtType }

\* the number of unordered pairs of n things
PairCount(n) == (n * (n - 1)) \div 2

\* C11 (as stated): in v3 every raw edge of any kind comes from a headline in
\* which both an event keyword and an asset alias are detected; a headline
\* without event or without asset emits nothing.
C11_NoEventOrNoAssetNoRawEdges ==
  ver = "v3" =>
    \A j \in 1..Len(emitted) :
      /\ HasEvent(titles[emitted[j].idx].words)
      /\ detect_assets(titles[emitted[j].idx].words) # {}

\* C11 (amended): in v3 a processed headline with neither event nor asset has
\* emitted no raw edge; one without event has emitted only asset -> asset
\* edges, one for each unordered pair of its assets; one without asset has
\* emitted only event -> event edges, one for each unordered pair of its
\* event kinds.
C11_MissingSideOnlyDropsItsEdges ==
  ver = "v3" =>
    \A i \in 1..(idx - 1) :
      IsValidTitle(titles[i]) =>
        LET t == titles[i].words
            nEvents == Len(detected_events_v3(t))
            nAssets == Cardinality(detect_assets(t))
        IN  (nEvents = 0 \/ nAssets = 0) =>
              /\ RawEdgesAt(i, "event", "asset") = {}
              /\ Cardinality(RawEdgesAt(i, "event", "event")) = PairCount(nEvents)
              /\ Cardinality(RawEdgesAt(i, "asset", "asset")) = PairCount(nAssets)
              /\ \A j \in 1..Len(emitted) :
                    emitted[j].idx = i =>
                      j \in RawEdgesAt(i, "event", "event") \cup RawEdgesAt(i, "asset", "asset")

\* C11 witness: v3 has processed a headline with two assets and no event that
\* emitted an asset -> asset edge, and a headline with two event kinds and no
\* asset that emitted an event -> event edge
C11_Witness ==
  /\ ver = "v3"
  /\ \E i \in 1..(idx - 1) :
       /\ IsValidTitle(titles[i])
       /\ ~HasEvent(titles[i].words)
       /\ RawEdgesAt(i, "asset", "asset") # {}
  /\ \E i \in 1..(idx - 1) :
       /\ IsValidTitle(titles[i])
       /\ detect_assets(titles[i].words) = {}
       /\ RawEdgesAt(i, "event", "event") # {}

\* the edges and node sets of a relations dict
EdgesAndNodes(rel) ==
  [ events |-> rel.events, mechanisms |-> rel.mechanisms, assets |-> rel.assets,
    edges |-> IF "raw_edges" \in DOMAIN rel THEN << rel.raw_edges >>
              ELSE << rel.event_edges, rel.mechanism_edges >> ]

RECURSIVE ExtractAll(_, _, _, _, _)
\* the loop of entry point v over a list of valid headlines
ExtractAll(v, rel, ts, aord, mord) ==
  IF ts = << >> THEN rel
  ELSE ExtractAll(v,
                  CASE v = "v1" -> extract_step_v1(rel, Head(ts), aord, mord)
                    [] v = "v2" -> extract_step_v2(rel, Head(ts), aord, mord)
                    [] v = "v3" -> extract_step_v3(rel, Head(ts), aord),
                  Tail(ts), aord, mord)

\* C12: in v1, v2 and v3 a list item that is not a string, is missing or is
\* the empty string is passed over without raising and emits no candidate, and
\* once the loop is over the edges and node sets are those of the loop run on
\* the list without these items.
C12_InvalidItemsAreSkipped ==
  /\ pc # "raised"
  /\ \A j \in 1..Len(emitted) : IsValidTitle(titles[emitted[j].idx])
  /\ (run = 1 /\ pc = "extract" /\ idx > Len(titles)) =>
       LET valid == SelectSeq(titles, IsValidTitle)
       IN  EdgesAndNodes(relations) =
             EdgesAndNodes(ExtractAll(ver, InitialRelations(ver, valid), valid,
                                      assetOrder, mechOrder))

\* C13: every event_edges tuple v2 emits for a headline carries the one event
\* kind that ranks first among the detected kinds in the order employment,
\* rate_cut, rate_hike; no tuple carries another detected kind.
C13_EdgesCarryThePrimaryEvent ==
  ver = "v2" =>
    \A j \in 1..Len(emitted) :
      emitted[j].kind = "event_edge" =>
        LET types == detect_event_type(titles[emitted[j].idx].words)
            e == emitted[j].edge.event
        IN  /\ e \in EventKinds
            /\ types[e]
            /\ e = "rate_cut" => ~types.employment
            /\ e = "rate_hike" => ~types.employment /\ ~types.rate_cut

\* C13 witness: v2 has emitted an employment edge for a headline in which a
\* rate cut is detected as well, and a rate_cut edge for a headline in which
\* a rate hike is detected as well
C13_Witness ==
  /\ ver = "v2"
  /\ \E j \in 1..Len(emitted) :
       /\ emitted[j].kind = "event_edge"
       /\ emitted[j].edge.event = "employment"
       /\ detect_event_type(titles[emitted[j].idx].words).rate_cut
  /\ \E j \in 1..Len(emitted) :
       /\ emitted[j].kind = "event_edge"
       /\ emitted[j].edge.event = "rate_cut"
       /\ detect_event_type(titles[emitted[j].idx].words).rate_hike

\* the event_edges tuples that list position i emitted
EventEdgesAt(i) ==
  { j \in 1..Len(emitted) : emitted[j].idx = i /\ emitted[j].kind = "event_edge" }

\* the mechanism_edges tuples that list position i emitted
MechanismEdgesAt(i) ==
  { j \in 1..Len(emitted) : emitted[j].idx = i /\ emitted[j].kind = "mechanism_edge" }

\* C14: in v2, a processed headline with a primary event and at least one
\* asset has emitted, when a mechanism is detected, only event -> mechanism
\* and mechanism -> asset candidates over the detected mechanisms and assets,
\* exactly one mechanism -> asset candidate for every (mechanism, asset) pair
\* and no direct event -> asset candidate; when no mechanism is detected,
\* exactly one direct event -> asset candidate for every detected asset and
\* no mechanism candidate.
C14_MechanismPathOrDirectPath ==
  ver = "v2" =>
    \A i \in 1..(idx - 1) :
      LET t == titles[i].words
          mechs == detect_mechanisms(t)
          assets == detect_assets(t)
      IN  (IsValidTitle(titles[i]) /\ HasEvent(t) /\ assets # {}) =>
            IF mechs # {}
            THEN /\ \A j \in EventEdgesAt(i) :
                      /\ emitted[j].edge.target_type = "mechanism"
                      /\ emitted[j].edge.target \in mechs
                 /\ EventEdgesAt(i) # {}
                 /\ \A j \in MechanismEdgesAt(i) :
                      /\ emitted[j].edge.mechanism \in mechs
                      /\ emitted[j].edge.asset \in assets
                 /\ \A m \in mechs, a \in assets :
                      Cardinality({ j \in MechanismEdgesAt(i) :
                                      /\ emitted[j].edge.mechanism = m
                                      /\ emitted[j].edge.asset = a }) = 1
            ELSE /\ MechanismEdgesAt(i) = {}
                 /\ \A j \in EventEdgesAt(i) :
                      /\ emitted[j].edge.target_type = "asset"
                      /\ emitted[j].edge.target \in assets
                 /\ \A a \in assets :
                      Cardinality({ j \in EventEdgesAt(i) :
                                      emitted[j].edge.target = a }) = 1

\* C14 witness: v2 has processed a headline with two mechanisms and an asset
\* that emitted mechanism candidates, and a headline with an asset and no
\* mechanism that emitted a direct candidate
C14_Witness ==
  /\ ver = "v2"
  /\ \E i \in 1..(idx - 1) :
       /\ IsValidTitle(titles[i])
       /\ Cardinality(detect_mechanisms(titles[i].words)) = 2
       /\ Cardinality(MechanismEdgesAt(i)) = 2
  /\ \E i \in 1..(idx - 1) :
       /\ IsValidTitle(titles[i])
       /\ detect_mechanisms(titles[i].words) = {}
       /\ Cardinality(detect_assets(titles[i].words)) = 1
       /\ Cardinality(EventEdgesAt(i)) = 1

\* C15: in v3, a processed headline has emitted exactly one asset -> asset raw
\* edge for every unordered pair of distinct detected assets, and its relation
\* is POSITIVE_CORRELATION exactly when both resolved directions are equal and
\* not neutral, NEGATIVE_CORRELATION exactly when both are not neutral and
\* differ, and CO_OCCURRENCE in every other case.
C15_AssetPairRelation ==
  ver = "v3" =>
    \A i \in 1..(idx - 1) :
      IsValidTitle(titles[i]) =>
        LET t == titles[i].words
            asset_movements == extract_asset_movement_pairs_v3(t)
        IN  \A a1, a2 \in detect_assets(t) :
              a1 # a2 =>
                LET between ==
                      { j \in RawEdgesAt(i, "asset", "asset") :
                          { emitted[j].edge.source, emitted[j].edge.target }
                            = { AssetNode(a1), AssetNode(a2) } }
                    dir1 == asset_movements[a1]
                    dir2 == asset_movements[a2]
                IN  /\ Cardinality(between) = 1
                    /\ \A j \in between :
                         emitted[j].edge.relation =
                           IF dir1 # "neutral" /\ dir2 # "neutral"
                           THEN IF dir1 = dir2 THEN "POSITIVE_CORRELATION"
                                ELSE "NEGATIVE_CORRELATION"
                           ELSE "CO_OCCURRENCE"

\* C16: infer_direction_with_context of v2 and v3 called for asset vix: when
\* the headline does not hold the literal 'vix' together with a movement
\* indicator of the positive or negative lists, the result is the inverse of
\* the base direction (neutral stays neutral); when it holds 'vix' together
\* with an indicator of either sign, the result is the base direction.
C16_VixInversion ==
  (pc = "inferred" /\ args.asset_type = "vix") =>
    LET directional == Has(text, PositiveSubstringWords) \/ Has(text, NegativeSubstringWords)
        inverse == CASE args.base_direction = "positive" -> "negative"
                     [] args.base_direction = "negative" -> "positive"
                     [] args.base_direction = "neutral" -> "neutral"
    IN  IF Has(text, VixLiteralWords) /\ directional
        THEN returned = args.base_direction
        ELSE returned = inverse

\* C17: the v2 pipeline run on the single headline 'Dollar surges while gold
\* retreats on strong jobs data' builds exactly two edges, both from
\* event:employment: to asset:dollar with polarity positive
\* (POSITIVELY_IMPACTS) and to asset:gold with polarity negative
\* (NEGATIVELY_IMPACTS).
C17_DocumentedExampleEdges ==
  (ver = "v2" /\ pc = "done" /\ titles = << Str(DocumentedExample1) >>) =>
    /\ Len(kg.edges) = 2
    /\ { << kg.edges[k].source, kg.edges[k].target, kg.edges[k].polarity,
            kg.edges[k].relation >> : k \in 1..Len(kg.edges) }
         = { << "event:employment", "asset:dollar", "positive", "POSITIVELY_IMPACTS" >>,
             << "event:employment", "asset:gold", "negative", "NEGATIVELY_IMPACTS" >> }

\* C17 witness: v2 has built a graph with edges from that single headline
C17_Witness ==
  /\ ver = "v2" /\ pc = "done"
  /\ titles = << Str(DocumentedExample1) >>
  /\ kg.edges # << >>

\* C18: extract_asset_movement_pairs with the v2 lexicon returns dollar ->
\* positive and gold -> negative for 'Dollar surges while gold retreats on
\* strong jobs data', and gold -> positive and bonds -> negative for 'Gold
\* climbs as bonds fall on weak jobs report', which it splits at 'as'.
C18_DocumentedExamplePairs ==
  (ver = "v2" /\ pc = "resolved") =>
    /\ text = DocumentedExample1 =>
         pairs = [ a \in {"dollar", "gold"} |->
                     IF a = "dollar" THEN "positive" ELSE "negative" ]
    /\ text = DocumentedExample2 =>
         /\ pairs = [ a \in {"gold", "bonds"} |->
                        IF a = "gold" THEN "positive" ELSE "negative" ]
         /\ Len(Clauses(text)) = 2

\* how many candidates with the given key the run has emitted
MergedCount(key) ==
  Cardinality({ j \in 1..Len(emitted) : emitted[j].key = key })

\* C19 (as stated): every edge of the graph built by v2, and every aggregated
\* edge of v3, has an evidence_count equal to the length of the evidence list
\* that edge carries, however many headlines contributed.
C19_CountIsCarriedEvidenceLength ==
  pc = "done" =>
    /\ ver = "v2" =>
         \A k \in 1..Len(kg.edges) :
           kg.edges[k].evidence_count = Len(kg.edges[k].evidence)
    /\ ver = "v3" =>
         \A k \in 1..Len(relations.aggregated_edges) :
           relations.aggregated_edges[k].evidence_count
             = Len(relations.aggregated_edges[k].evidence_list)

\* C19 (amended): the evidence_count of every edge is the number of candidates
\* merged into it; an aggregated edge of v3 carries all of them, an edge of the
\* graph built by v2 carries the first ten at most, so that its count is the
\* length of the carried list only up to ten merged candidates.
C19_CountIsMergedEvidence ==
  pc = "done" =>
    /\ ver = "v2" =>
         \A k \in 1..Len(kg.edges) :
           LET e == kg.edges[k]
           IN  /\ e.evidence_count = MergedCount(<< e.source, e.target >>)
               /\ Len(e.evidence) = Min(e.evidence_count, EvidenceCap)
    /\ ver = "v3" =>
         \A k \in 1..Len(relations.aggregated_edges) :
           LET e == relations.aggregated_edges[k]
           IN  /\ e.evidence_count = MergedCount(<< e.source, e.target, e.relation >>)
               /\ Len(e.evidence_list) = e.evidence_count

\* C19 witness: v2 has built an edge from eleven merged candidates that
\* carries ten evidence entries
C19_Witness ==
  /\ ver = "v2" /\ pc = "done"
  /\ \E k \in 1..Len(kg.edges) :
       /\ kg.edges[k].evidence_count = EvidenceCap + 1
       /\ Len(kg.edges[k].evidence) = EvidenceCap

\* the node ids that are source or target of a candidate emitted so far
EmittedEndpoints ==
  UNION { { emitted[j].key[1], emitted[j].key[2] } : j \in 1..Len(emitted) }

\* C20: in v2 and v3, at any point of the run every event, mechanism and
\* asset held in relations is the source or target of a candidate emitted so
\* far, and every node of the graph v2 builds is the source or target of one
\* of its edges: a headline that emits nothing adds no node.
C20_NodesComeFromEdges ==
  ver \in {"v2", "v3"} =>
    /\ \A e \in relations.events : EventNode(e) \in EmittedEndpoints
    /\ \A m \in relations.mechanisms : m \in EmittedEndpoints
    /\ \A a \in relations.assets : AssetNode(a) \in EmittedEndpoints
    /\ (ver = "v2" /\ pc = "done") =>
         \A n \in 1..Len(kg.nodes) :
           \E k \in 1..Len(kg.edges) :
             kg.nodes[n].id \in { kg.edges[k].source, kg.edges[k].target }


(***************************************************************************)
(* Causal classifier: priority order and the movement gate                 *)
(***************************************************************************)

\* C21: the pattern label on every emitted v1 / v2 tuple is the qualifying
\* rule of highest priority (earliest in table order among equal priorities),
\* where a rule marked requires_movement qualifies only when the headline
\* holds a movement indicator, and the fallback label (general_context in v1,
\* co_occurrence in v2) when no rule qualifies.
C21_HighestPriorityGatedRule ==
  \A j \in 1..Len(emitted) :
    LET t == titles[emitted[j].idx].words
        \* a movement indicator of v1 occurs in the headline (substring test)
        has_movement_v1 ==
          \E b \in DOMAIN MOVEMENT_INDICATORS_v1 : Has(t, MOVEMENT_INDICATORS_v1[b])
        \* the rules whose regex matches and whose movement gate is open
        QualifyingRules(table, moved) ==
          { k \in 1..Len(table) :
              /\ PatternMatches(table[k].name, t)
              /\ table[k].requires_movement => moved }
        PrescribedLabel(table, moved, fallback) ==
          LET q == QualifyingRules(table, moved)
          IN  IF q = {} THEN fallback
              ELSE table[CHOOSE k \in q :
                           \A i \in q \ {k} :
                             \/ table[k].priority > table[i].priority
                             \/ table[k].priority = table[i].priority /\ k < i].name
    IN  /\ ver = "v2" =>
             emitted[j].edge.pattern =
               PrescribedLabel(CAUSAL_PATTERNS, has_movement(t), "co_occurrence")
        /\ ver = "v1" =>
             emitted[j].edge.pattern =
               PrescribedLabel(CAUSAL_PATTERNS_v1, has_movement_v1, "general_context")


(***************************************************************************)
(* Clause verdict                                                          *)
(***************************************************************************)

\* C22: infer_direction_from_clause (v2 and v3) returns negative when the
\* clause holds an indicator of a negative bucket (strong_negative, negative,
\* weak_negative), positive when it holds none of those but an indicator of a
\* positive bucket (strong_positive, positive, weak_positive), and neutral
\* otherwise.
C22_ClauseVerdictPrecedence ==
  pc = "clause" =>
    LET HasIndicatorOf(bucketSet) == \E b \in bucketSet : Has(text, MOVEMENT_INDICATORS[b])
    IN  returned =
          IF HasIndicatorOf({"strong_negative", "negative", "weak_negative"}) THEN "negative"
          ELSE IF HasIndicatorOf({"strong_positive", "positive", "weak_positive"}) THEN "positive"
          ELSE "neutral"


(***************************************************************************)
(* Clause step of the resolver                                             *)
(***************************************************************************)
BucketsOf(v) == IF v = "v2" THEN BucketsV2 ELSE BucketsV3

\* asset_movements when the loop over the clauses ends
ClauseLevel(v, t) ==
  ClauseStep(Clauses(t), 1, [ mov |-> EmptyDict, done |-> {} ],
             BucketsOf(v),
             IF v = "v2" THEN AssetIds ELSE detect_assets(t)).mov

\* the verdicts of the clauses that hold the asset, left to right
ClauseVerdicts(v, t, a) ==
  LET cl   == Clauses(t)
      idxs == SelectSeq([ i \in 1..Len(cl) |-> i ],
                        LAMBDA i : Has(cl[i], ASSET_KEYWORDS[a]))
  IN  [ k \in 1..Len(idxs) |-> infer_direction_from_clause(cl[idxs[k]], BucketsOf(v)) ]

\* C23 as stated: after the clause step an asset is neutral only if every
\* clause holding it has a neutral verdict, and otherwise it carries the
\* FIRST non-neutral verdict among the clauses holding it (a later different
\* non-neutral verdict does not replace it).
C23_FirstDirectionalVerdictStands ==
  pc = "resolved" =>
    \A a \in DOMAIN ClauseLevel(ver, text) :
      LET vs == ClauseVerdicts(ver, text, a)
          nn == { k \in 1..Len(vs) : vs[k] # "neutral" }
      IN  IF nn = {} THEN ClauseLevel(ver, text)[a] = "neutral"
          ELSE ClauseLevel(ver, text)[a] = vs[CHOOSE k \in nn : \A j \in nn : k <= j]

\* C23 (amended): after the clause step an asset is neutral only if every
\* clause holding it has a neutral verdict; a later non-neutral verdict
\* replaces an earlier neutral one and an earlier non-neutral one alike, and
\* a neutral verdict replaces nothing: the asset carries the LAST non-neutral
\* verdict among the clauses holding it.
C23_LastDirectionalVerdictStands ==
  pc = "resolved" =>
    \A a \in DOMAIN ClauseLevel(ver, text) :
      LET vs == ClauseVerdicts(ver, text, a)
          nn == { k \in 1..Len(vs) : vs[k] # "neutral" }
      IN  IF nn = {} THEN ClauseLevel(ver, text)[a] = "neutral"
          ELSE ClauseLevel(ver, text)[a] = vs[CHOOSE k \in nn : \A j \in nn : k >= j]

\* C23 witness: the resolver has returned for a headline in which one asset
\* stands in a clause with a positive verdict and in a later clause with a
\* negative verdict, and in a clause with a neutral verdict after a
\* non-neutral one
C23_Witness ==
  /\ pc = "resolved"
  /\ \E a \in DOMAIN pairs :
       LET vs == ClauseVerdicts(ver, text, a)
       IN  /\ Len(vs) = 2 /\ vs[1] = "positive" /\ vs[2] = "negative"
           /\ pairs[a] = "negative"


\* C25: the proximity fallback of extract_asset_movement_pairs changes only
\* assets the clause step has not assigned: every asset that received a
\* direction from a clause, a neutral one included, has that clause-level
\* direction in the returned mapping.
C25_ClauseDirectionIsKept ==
  pc = "resolved" =>
    \A a \in DOMAIN ClauseLevel(ver, text) :
      a \in DOMAIN pairs /\ pairs[a] = ClauseLevel(ver, text)[a]


(***************************************************************************)
(* Proximity matching                                                      *)
(***************************************************************************)
\* twice the distance between the centres of a mention and an indicator span
CentreDistance(pos, mv) ==
  LET ac == pos.start + pos.end
      mc == mv.start + mv.end
  IN  IF ac >= mc THEN ac - mc ELSE mc - ac

\* the indicator span is centred after the mention
IsAfter(pos, mv) == mv.start + mv.end > pos.start + pos.end

C26_LeftmostLongestSpans ==
  pc = "positions" =>
    LET cand == MovementCandidates(text, BucketsOf(ver))
        kept == { pairs[i] : i \in 1..Len(pairs) }
    IN  /\ kept \subseteq cand
        /\ \A i, j \in 1..Len(pairs) : i < j => pairs[i].end <= pairs[j].start
        /\ \A k \in kept : \A c \in cand : c.start = k.start => c.end <= k.end
        /\ \A c \in cand \ kept :
             \E k \in kept : k.start <= c.start /\ k.start < c.end /\ c.start < k.end

\* C26 witness: positions were returned for a text with a candidate that
\* starts where a longer returned span starts, a candidate that starts later
\* inside a returned span, and two returned spans
C26_Witness ==
  /\ pc = "positions"
  /\ Len(pairs) >= 2
  /\ LET cand == MovementCandidates(text, BucketsOf(ver))
         kept == { pairs[i] : i \in 1..Len(pairs) }
     IN  /\ \E c \in cand \ kept : \E k \in kept : c.start = k.start /\ c.end < k.end
         /\ \E c \in cand \ kept : \E k \in kept : k.start < c.start /\ c.end <= k.end


\* C27: v1 and v2 use the same primary event: the event carried by every
\* event_edges tuple of a v1 run is the one v2 selects for that headline, and
\* the event carried by every event_edges tuple of a v2 run is the one v1
\* selects for it.
C27_SamePrimaryEvent ==
  \A j \in 1..Len(emitted) :
    emitted[j].kind = "event_edge" =>
      LET types == detect_event_type(titles[emitted[j].idx].words)
      IN  /\ ver = "v1" => emitted[j].edge.event = primary_event_v2(types)
          /\ ver = "v2" => emitted[j].edge.event = primary_event_v1(types)


(***************************************************************************)
(* Loader cache                                                            *)
(***************************************************************************)
\* C28: in every call of load_kg_config, (a) with an instance cached and
\* reload false the cached instance is returned and stays cached, whatever
\* config_path is; (b) with reload true or nothing cached, a construction that
\* succeeds yields a new KGConfig of the given path, which is cached and
\* returned; (c) a construction that raises leaves the cache as it was.
C28_LoaderCache ==
  [][ calls' = calls + 1 =>
        LET hit == config_instance # NoInstance /\ ~args'.reload
        IN  /\ hit =>
                 /\ returned' = [ raised |-> FALSE, value |-> config_instance ]
                 /\ config_instance' = config_instance
            /\ (~hit /\ args'.loadable) =>
                 /\ config_instance'.id = calls'
                 /\ config_instance'.id > config_instance.id
                 /\ config_instance'.config_path =
                      (IF args'.config_path = "None" THEN DefaultConfigPath
                       ELSE args'.config_path)
                 /\ returned' = [ raised |-> FALSE, value |-> config_instance' ]
            /\ (~hit /\ ~args'.loadable) =>
                 /\ returned'.raised
                 /\ config_instance' = config_instance ]_vars

\* C28 witness: a reload has just raised while an instance built by an
\* earlier call is cached, and that instance is still cached
C28_Witness ==
  /\ pc = "loader" /\ calls >= 2
  /\ args.reload /\ ~args.loadable
  /\ returned.raised
  /\ config_instance # NoInstance /\ config_instance.id < calls


(***************************************************************************)
(* Context heuristics of v2 on assets other than vix                       *)
(***************************************************************************)
\* C29: v2 infer_direction_with_context, for an asset other than vix, returns
\* a non-neutral base_direction unchanged, and once the employment-strength
\* heuristic, or after it the dovish one, has made the direction non-neutral
\* the later heuristics leave it: only a neutral direction is ever replaced.
C29_HeuristicsOnlyReplaceNeutral ==
  (pc = "inferred" /\ ver = "v2" /\ args.asset_type # "vix") =>
    LET afterStrength == StrengthAdjust_v2(args.employment_strength, args.asset_type,
                                           args.base_direction)
        afterDovish   == DovishAdjust_v2(args.mechanisms, args.asset_type, afterStrength)
    IN  /\ args.base_direction # "neutral" => returned = args.base_direction
        /\ afterStrength # "neutral" => returned = afterStrength
        /\ afterDovish # "neutral" => returned = afterDovish

\* C29 witness: v2 has returned for a non-vix asset with a neutral base
\* direction, strong employment and both a dovish and a hawkish mechanism:
\* the strength heuristic decided and the two later ones, which point the
\* other way or the same way, left it
C29_Witness ==
  /\ pc = "inferred" /\ ver = "v2"
  /\ args.asset_type = "dollar" /\ args.base_direction = "neutral"
  /\ args.employment_strength = "strong"
  /\ args.mechanisms = {"mech:rate_cut_bets", "mech:rate_hike_bets"}
  /\ returned = "positive"


(***************************************************************************)
(* Extraction statistics of v3                                             *)
(***************************************************************************)

InitStats ==
  /\ titles \in SeqsUpTo(
         { Str(<< "dollar", "rally", "payrolls" >>),
           Str(<< "payrolls", "rate cut" >>),
           Str(<< "dollar", "gold" >>),
           Str(<< "rally" >>),
           Str(<< >>),
           NoneTitle },
         MaxTitles)
  /\ ver = "v3"
  /\ assetOrder \in IterationOrders(DetectedAssetSets(ver, titles))
  /\ mechOrder \in IterationOrders(DetectedMechanismSets(titles))
  /\ idx = 1
  /\ relations = InitialRelations(ver, titles)
  /\ kg = << >>
  /\ pc = "extract"
  /\ emitted = << >>
  /\ run = 1
  /\ first = << >>
  /\ InitLoaderFor(ver)
  /\ text = << >>
  /\ pairs = << >>
  /\ args = NoArgs
  /\ returned = "none"

NextStats == ExtractV3 \/ AggregateEdges

SpecStats == InitStats /\ [][NextStats]_vars

\* C30: in v3, at every point of extract_multi_event_relations_relaxed and at
\* its return, with_both <= min(with_events, with_assets), extracted =
\* with_events + with_assets - with_both and extracted <= total_headlines, and
\* no step over one headline raises a counter by more than one.
C30_ExtractionStats ==
  [][ ver = "v3" =>
        LET before == relations.extraction_stats
            after  == relations'.extraction_stats
        IN  /\ after.with_both <= Min(after.with_events, after.with_assets)
            /\ after.extracted = after.with_events + after.with_assets - after.with_both
            /\ after.extracted <= after.total_headlines
            /\ \A c \in DOMAIN after : after[c] - before[c] \in {0, 1} ]_vars

\* C30 witness: v3 has returned after a list holding a headline with an event
\* and an asset, one with only one of the two, and one the loop skipped
C30_Witness ==
  /\ ver = "v3" /\ pc = "done"
  /\ relations.extraction_stats.with_both >= 1
  /\ relations.extraction_stats.with_events + relations.extraction_stats.with_assets
       > 2 * relations.extraction_stats.with_both
  /\ relations.extraction_stats.extracted < relations.extraction_stats.total_headlines

====
